---------------------------- MODULE Spec2Model ----------------------------
(***************************************************************************)
(* A model of the marketbytes news ingestion pipeline: the RSS fan-out,    *)
(* the in-batch deduplication, the check-enrich-store step of every item,  *)
(* the enrichment service with its quota cool-down and its rule-based      *)
(* fallback, and the in-memory article store.                              *)
(*                                                                         *)
(* Texts (titles, descriptions, tickers) are sequences of one-character    *)
(* strings. URLs are records: base stands for scheme + host + path, query  *)
(* and frag for the query string and the fragment (0: none), valid for     *)
(* whether new URL(url) parses it. Time is in milliseconds.                *)
(*                                                                         *)
(* The same module models the quote cache and the periodic broadcast of     *)
(* MarketDataService, the client hook of the real-time channel, the text   *)
(* sanitizers and the article search.                                      *)
(*                                                                         *)
(* The specifications share the definitions:                               *)
(*   Spec        the ingestion runs over the store and the enricher;       *)
(*   SpecEnrich  the enricher alone, with overlapping callers and a clock; *)
(*   SpecMarket  the quote cache, its callers, the interval, the sockets;  *)
(*   SpecHook    the client hook, its sockets and its timeouts;            *)
(*   SpecLive    one ingestion run whose feeds and enricher may never      *)
(*               answer, with the fairness of the event loop;              *)
(*   SpecDedup, SpecFallback, SpecSearch, SpecClean, SpecPage,             *)
(*   SpecValidate                                                          *)
(*               pure functions applied to bounded inputs.                 *)
(***************************************************************************)
EXTENDS Integers, Sequences, FiniteSets, TLC

VARIABLES
  store,           \* MemStorage.newsArticles, in insertion order
  runs,            \* one record per fetchLatestNews invocation
  quotaExceeded,   \* OpenAIService.quotaExceeded
  lastQuotaCheck,  \* OpenAIService.lastQuotaCheck
  now,             \* Date.now()
  nticks,          \* how many times the clock has advanced
  failures,        \* how many chat completions have failed
  callers,         \* SpecEnrich: the callers of processNewsArticle
  history,         \* SpecEnrich: every request in arrival order, and the path it took
  caught,          \* SpecEnrich: every error the catch block has handled, and when
  pin,             \* the input of the pure function under test
  pout,            \* its result
  wss,             \* MarketDataService.wss: whether initialize has created the server
  sockets,         \* wss.clients and the sockets that have left it, with what each received
  cachedData,      \* MarketDataService.cachedData
  lastFetchTime,   \* MarketDataService.lastFetchTime
  fetches,         \* the getMarketData calls that are awaiting the quote source
  broadcastTimer,  \* the setInterval of startBroadcasting
  marketLog,       \* SpecMarket: what the latest calls returned, and the broadcasts so far
  hook,            \* useMarketWebSocket: its refs and its state
  browser,         \* the WebSockets the hook has created and its pending timeouts
  hookLog,         \* SpecHook: every close event the hook has handled
  calls            \* SpecLive: the feed fetches in flight and their abort timers

marketVars == <<wss, sockets, cachedData, lastFetchTime, fetches, broadcastTimer, marketLog>>

hookVars == <<hook, browser, hookLog>>

liveVars == <<calls>>

vars == <<store, runs, quotaExceeded, lastQuotaCheck, now, nticks, failures,
          callers, history, caught, pin, pout, marketVars, hookVars, liveVars>>

(***************************************************************************)
(* Bounds of the model.                                                    *)
(***************************************************************************)
MaxTicks == 3
MaxFailures == 2
PreloadCount == 21
MaxRequests == 4
MaxTitleLen == 3
MaxNames == 7
MaxDedupLen == 3

(***************************************************************************)
(* Text helpers: the String methods the code uses.                         *)
(***************************************************************************)
LowerLetters ==
  <<"a","b","c","d","e","f","g","h","i","j","k","l","m",
    "n","o","p","q","r","s","t","u","v","w","x","y","z">>

UpperLetters ==
  <<"A","B","C","D","E","F","G","H","I","J","K","L","M",
    "N","O","P","Q","R","S","T","U","V","W","X","Y","Z">>

IndexIn(c, letters) ==
  IF \E i \in 1..Len(letters) : letters[i] = c
  THEN CHOOSE i \in 1..Len(letters) : letters[i] = c
  ELSE 0

LowerChar(c) ==
  IF IndexIn(c, UpperLetters) > 0 THEN LowerLetters[IndexIn(c, UpperLetters)] ELSE c

UpperChar(c) ==
  IF IndexIn(c, LowerLetters) > 0 THEN UpperLetters[IndexIn(c, LowerLetters)] ELSE c

toLowerCase(s) == [i \in 1..Len(s) |-> LowerChar(s[i])]

toUpperCase(s) == [i \in 1..Len(s) |-> UpperChar(s[i])]

\* s.includes(needle)
includes(s, needle) ==
  \E i \in 1..(Len(s) - Len(needle) + 1) : SubSeq(s, i, i + Len(needle) - 1) = needle

\* s.substring(0, n)
substring0(s, n) == SubSeq(s, 1, IF Len(s) < n THEN Len(s) ELSE n)

IsSpace(c) == c = " "

\* s.trim()
RECURSIVE trimStart(_)
trimStart(s) ==
  IF s # <<>> /\ IsSpace(Head(s)) THEN trimStart(Tail(s)) ELSE s

RECURSIVE trimEnd(_)
trimEnd(s) ==
  IF s # <<>> /\ IsSpace(s[Len(s)]) THEN trimEnd(SubSeq(s, 1, Len(s) - 1)) ELSE s

trim(s) == trimEnd(trimStart(s))

\* s.replace(/\s+/g, ' ')
\* Every run of blanks is cut down to its first blank, left to right.
RECURSIVE collapseSpaces(_)
collapseSpaces(s) ==
  LET blankRuns == { i \in 1..(Len(s) - 1) : IsSpace(s[i]) /\ IsSpace(s[i + 1]) }
  IN IF blankRuns = {} THEN s
  ELSE LET k == CHOOSE x \in blankRuns : \A y \in blankRuns : x <= y
       IN SubSeq(s, 1, k) \o collapseSpaces(trimStart(SubSeq(s, k + 1, Len(s))))

\* s.split(' ')
RECURSIVE splitOnSpace(_)
splitOnSpace(s) ==
  IF ~ \E i \in 1..Len(s) : s[i] = " " THEN <<s>>
  ELSE LET k == CHOOSE i \in 1..Len(s) :
                   s[i] = " " /\ \A j \in 1..(i - 1) : s[j] # " "
       IN <<SubSeq(s, 1, k - 1)>> \o splitOnSpace(SubSeq(s, k + 1, Len(s)))

\* words.join(' ')
RECURSIVE joinWithSpace(_)
joinWithSpace(words) ==
  IF words = <<>> THEN <<>>
  ELSE IF Len(words) = 1 THEN words[1]
  ELSE words[1] \o <<" ">> \o joinWithSpace(Tail(words))

\* Array.from(new Set(xs)): the first occurrence of every element, in order.
RECURSIVE uniqueInOrder(_)
uniqueInOrder(xs) ==
  IF xs = <<>> THEN <<>>
  ELSE LET rest == uniqueInOrder(SubSeq(xs, 1, Len(xs) - 1))
           last == xs[Len(xs)]
       IN IF \E i \in 1..Len(rest) : rest[i] = last THEN rest ELSE Append(rest, last)

\* xs.slice(from, to), with JavaScript's zero-based half-open range.
slice(xs, from, to) ==
  SubSeq(xs, from + 1, IF to > Len(xs) THEN Len(xs) ELSE to)

\* xs.filter(keep)
\* xs.filter(...), the verdict on each index given as keep[i]
RECURSIVE SelectIdx(_, _, _)
SelectIdx(xs, keep, i) ==
  IF i > Len(xs) THEN <<>>
  ELSE (IF keep[i] THEN <<xs[i]>> ELSE <<>>) \o SelectIdx(xs, keep, i + 1)

(***************************************************************************)
(* OpenAIService: the rule-based fallback.                                 *)
(***************************************************************************)
QUOTA_RESET_INTERVAL == 30 * 60 * 1000

TICKER_LIMIT == 6

TITLE_PREFIX_LEN == 30

companyToTicker ==
  <<
    <<<<"t","c","s">>, <<"T","C","S">>>>,
    <<<<"t","a","t","a"," ","c","o","n","s","u","l","t","a","n","c","y">>, <<"T","C","S">>>>,
    <<<<"i","n","f","o","s","y","s">>, <<"I","N","F","Y">>>>,
    <<<<"w","i","p","r","o">>, <<"W","I","P","R","O">>>>,
    <<<<"h","c","l">>, <<"H","C","L","T","E","C","H">>>>,
    <<<<"t","e","c","h"," ","m","a","h","i","n","d","r","a">>, <<"T","E","C","H","M">>>>,
    <<<<"m","i","n","d","t","r","e","e">>, <<"M","I","N","D","T","R","E","E">>>>,
    <<<<"h","d","f","c">>, <<"H","D","F","C","B","A","N","K">>>>,
    <<<<"i","c","i","c","i">>, <<"I","C","I","C","I","B","A","N","K">>>>,
    <<<<"s","b","i">>, <<"S","B","I","N">>>>,
    <<<<"s","t","a","t","e"," ","b","a","n","k">>, <<"S","B","I","N">>>>,
    <<<<"a","x","i","s">>, <<"A","X","I","S","B","A","N","K">>>>,
    <<<<"k","o","t","a","k">>, <<"K","O","T","A","K","B","A","N","K">>>>,
    <<<<"y","e","s"," ","b","a","n","k">>, <<"Y","E","S","B","A","N","K">>>>,
    <<<<"i","n","d","u","s","i","n","d">>, <<"I","N","D","U","S","I","N","D","B","K">>>>,
    <<<<"b","a","j","a","j"," ","f","i","n","a","n","c","e">>, <<"B","A","J","F","I","N","A","N","C","E">>>>,
    <<<<"l","i","c">>, <<"L","I","C","I">>>>,
    <<<<"r","e","l","i","a","n","c","e">>, <<"R","E","L","I","A","N","C","E">>>>,
    <<<<"r","i","l">>, <<"R","E","L","I","A","N","C","E">>>>,
    <<<<"o","n","g","c">>, <<"O","N","G","C">>>>, <<<<"b","p","c","l">>, <<"B","P","C","L">>>>,
    <<<<"i","o","c">>, <<"I","O","C">>>>, <<<<"n","t","p","c">>, <<"N","T","P","C">>>>,
    <<<<"c","o","a","l"," ","i","n","d","i","a">>, <<"C","O","A","L","I","N","D","I","A">>>>,
    <<<<"p","o","w","e","r"," ","g","r","i","d">>, <<"P","O","W","E","R","G","R","I","D">>>>,
    <<<<"t","a","t","a"," ","m","o","t","o","r","s">>, <<"T","A","T","A","M","O","T","O","R","S">>>>,
    <<<<"m","a","r","u","t","i">>, <<"M","A","R","U","T","I">>>>,
    <<<<"b","a","j","a","j"," ","a","u","t","o">>, <<"B","A","J","A","J","-","A","U","T","O">>>>,
    <<<<"h","e","r","o"," ","m","o","t","o","c","o","r","p">>, <<"H","E","R","O","M","O","T","O","C","O">>>>,
    <<<<"m","a","h","i","n","d","r","a">>, <<"M","&","M">>>>,
    <<<<"e","i","c","h","e","r">>, <<"E","I","C","H","E","R","M","O","T">>>>,
    <<<<"i","t","c">>, <<"I","T","C">>>>,
    <<<<"h","i","n","d","u","s","t","a","n"," ","u","n","i","l","e","v","e","r">>, <<"H","I","N","D","U","N","I","L","V","R">>>>,
    <<<<"h","u","l">>, <<"H","I","N","D","U","N","I","L","V","R">>>>,
    <<<<"n","e","s","t","l","e">>, <<"N","E","S","T","L","E","I","N","D">>>>,
    <<<<"b","r","i","t","a","n","n","i","a">>, <<"B","R","I","T","A","N","N","I","A">>>>,
    <<<<"g","o","d","r","e","j">>, <<"G","O","D","R","E","J","C","P">>>>,
    <<<<"t","a","t","a"," ","s","t","e","e","l">>, <<"T","A","T","A","S","T","E","E","L">>>>,
    <<<<"j","s","l">>, <<"J","S","L">>>>,
    <<<<"h","i","n","d","a","l","c","o">>, <<"H","I","N","D","A","L","C","O">>>>,
    <<<<"v","e","d","a","n","t","a">>, <<"V","E","D","L">>>>,
    <<<<"j","s","w"," ","s","t","e","e","l">>, <<"J","S","W","S","T","E","E","L">>>>,
    <<<<"s","a","i","l">>, <<"S","A","I","L">>>>,
    <<<<"s","u","n"," ","p","h","a","r","m","a">>, <<"S","U","N","P","H","A","R","M","A">>>>,
    <<<<"d","r"," ","r","e","d","d","y">>, <<"D","R","R","E","D","D","Y">>>>,
    <<<<"c","i","p","l","a">>, <<"C","I","P","L","A">>>>,
    <<<<"l","u","p","i","n">>, <<"L","U","P","I","N">>>>,
    <<<<"b","i","o","c","o","n">>, <<"B","I","O","C","O","N">>>>,
    <<<<"a","u","r","o","b","i","n","d","o">>, <<"A","U","R","O","P","H","A","R","M","A">>>>,
    <<<<"b","h","a","r","t","i"," ","a","i","r","t","e","l">>, <<"B","H","A","R","T","I","A","R","T","L">>>>,
    <<<<"a","i","r","t","e","l">>, <<"B","H","A","R","T","I","A","R","T","L">>>>,
    <<<<"v","o","d","a","f","o","n","e"," ","i","d","e","a">>, <<"I","D","E","A">>>>,
    <<<<"u","l","t","r","a","t","e","c","h">>, <<"U","L","T","R","A","C","E","M","C","O">>>>,
    <<<<"a","c","c">>, <<"A","C","C">>>>,
    <<<<"a","m","b","u","j","a">>, <<"A","M","B","U","J","A","C","E","M">>>>,
    <<<<"g","r","a","s","i","m">>, <<"G","R","A","S","I","M">>>>,
    <<<<"a","d","a","n","i"," ","e","n","t","e","r","p","r","i","s","e","s">>, <<"A","D","A","N","I","E","N","T">>>>,
    <<<<"a","d","a","n","i"," ","p","o","r","t","s">>, <<"A","D","A","N","I","P","O","R","T","S">>>>,
    <<<<"a","d","a","n","i"," ","p","o","w","e","r">>, <<"A","D","A","N","I","P","O","W","E","R">>>>,
    <<<<"a","d","a","n","i"," ","g","r","e","e","n">>, <<"A","D","A","N","I","G","R","E","E","N">>>>,
    <<<<"a","d","a","n","i"," ","t","r","a","n","s","m","i","s","s","i","o","n">>, <<"A","D","A","N","I","T","R","A","N","S">>>>,
    <<<<"a","s","i","a","n"," ","p","a","i","n","t","s">>, <<"A","S","I","A","N","P","A","I","N","T">>>>,
    <<<<"t","i","t","a","n">>, <<"T","I","T","A","N">>>>, <<<<"l","&","t">>, <<"L","T">>>>,
    <<<<"l","a","r","s","e","n">>, <<"L","T">>>>
  >>

directTickers ==
  <<
    <<"R","E","L","I","A","N","C","E">>, <<"T","C","S">>, <<"H","D","F","C","B","A","N","K">>,
    <<"I","N","F","Y">>, <<"H","I","N","D","U","N","I","L","V","R">>,
    <<"I","C","I","C","I","B","A","N","K">>, <<"S","B","I","N">>,
    <<"B","H","A","R","T","I","A","R","T","L">>, <<"I","T","C">>,
    <<"K","O","T","A","K","B","A","N","K">>, <<"L","T">>,
    <<"A","S","I","A","N","P","A","I","N","T">>, <<"A","X","I","S","B","A","N","K">>,
    <<"M","A","R","U","T","I">>, <<"S","U","N","P","H","A","R","M","A">>,
    <<"T","I","T","A","N">>, <<"U","L","T","R","A","C","E","M","C","O">>,
    <<"W","I","P","R","O">>, <<"N","E","S","T","L","E","I","N","D">>,
    <<"P","O","W","E","R","G","R","I","D">>, <<"B","A","J","F","I","N","A","N","C","E">>,
    <<"H","C","L","T","E","C","H">>, <<"D","R","R","E","D","D","Y">>,
    <<"T","A","T","A","M","O","T","O","R","S">>, <<"A","D","A","N","I","P","O","R","T","S">>,
    <<"I","N","D","U","S","I","N","D","B","K">>, <<"B","A","J","A","J","F","I","N","S","V">>,
    <<"T","E","C","H","M">>, <<"J","S","W","S","T","E","E","L">>,
    <<"T","A","T","A","S","T","E","E","L">>, <<"C","O","A","L","I","N","D","I","A">>,
    <<"N","T","P","C">>, <<"O","N","G","C">>, <<"B","P","C","L">>, <<"I","O","C">>,
    <<"M","&","M">>, <<"H","E","R","O","M","O","T","O","C","O">>,
    <<"E","I","C","H","E","R","M","O","T">>, <<"B","R","I","T","A","N","N","I","A">>,
    <<"G","O","D","R","E","J","C","P">>, <<"V","E","D","L">>, <<"S","A","I","L">>,
    <<"L","U","P","I","N">>, <<"B","I","O","C","O","N">>, <<"C","I","P","L","A">>,
    <<"A","U","R","O","P","H","A","R","M","A">>, <<"I","D","E","A">>, <<"A","C","C">>,
    <<"A","M","B","U","J","A","C","E","M">>, <<"G","R","A","S","I","M">>,
    <<"A","D","A","N","I","E","N","T">>, <<"A","D","A","N","I","P","O","W","E","R">>,
    <<"A","D","A","N","I","G","R","E","E","N">>
  >>

\* "â‚¹" as the source file spells it; no modelled text holds it.
RupeeSign == <<"RUPEE">>

\* The tickers pushed by the two loops, before the Set and the slice.
RECURSIVE companyMatches(_, _)
companyMatches(lowerText, i) ==
  IF i > Len(companyToTicker) THEN <<>>
  ELSE (IF includes(lowerText, companyToTicker[i][1])
        THEN <<companyToTicker[i][2]>> ELSE <<>>)
       \o companyMatches(lowerText, i + 1)

RECURSIVE directMatches(_, _)
directMatches(upperText, i) ==
  IF i > Len(directTickers) THEN <<>>
  ELSE (IF includes(upperText, directTickers[i])
           \/ includes(upperText, RupeeSign \o directTickers[i])
        THEN <<directTickers[i]>> ELSE <<>>)
       \o directMatches(upperText, i + 1)

extractTickersFromText(text) ==
  slice(uniqueInOrder(companyMatches(toLowerCase(text), 1)
                      \o directMatches(toUpperCase(text), 1)),
        0, TICKER_LIMIT)

sectorKeywords ==
  <<
    <<"IT Services", << <<"s","o","f","t","w","a","r","e">>,
                        <<"t","e","c","h","n","o","l","o","g","y">>, <<"I","T">>,
                        <<"t","e","c","h">>, <<"d","i","g","i","t","a","l">>,
                        <<"c","l","o","u","d">> >> >>,
    <<"Banking", << <<"b","a","n","k">>, <<"b","a","n","k","i","n","g">>,
                    <<"f","i","n","a","n","c","i","a","l"," ","s","e","r","v","i","c","e","s">>,
                    <<"H","D","F","C">>, <<"I","C","I","C","I">>, <<"S","B","I">> >> >>,
    <<"Energy", << <<"o","i","l">>, <<"g","a","s">>, <<"r","e","f","i","n","i","n","g">>,
                   <<"p","e","t","r","o","c","h","e","m","i","c","a","l">>,
                   <<"e","n","e","r","g","y">> >> >>,
    <<"Pharma", << <<"p","h","a","r","m","a">>,
                   <<"p","h","a","r","m","a","c","e","u","t","i","c","a","l">>,
                   <<"d","r","u","g">>, <<"m","e","d","i","c","i","n","e">>,
                   <<"F","D","A">> >> >>,
    <<"Automotive", << <<"a","u","t","o">>, <<"c","a","r">>, <<"v","e","h","i","c","l","e">>,
                       <<"m","o","t","o","r">>, <<"E","V">>,
                       <<"e","l","e","c","t","r","i","c"," ","v","e","h","i","c","l","e">> >> >>,
    <<"FMCG", << <<"c","o","n","s","u","m","e","r"," ","g","o","o","d","s">>,
                 <<"F","M","C","G">>, <<"r","e","t","a","i","l">>,
                 <<"c","o","n","s","u","m","e","r">> >> >>,
    <<"Telecom", << <<"t","e","l","e","c","o","m">>, <<"m","o","b","i","l","e">>,
                    <<"5","G">>, <<"s","p","e","c","t","r","u","m">>,
                    <<"c","o","m","m","u","n","i","c","a","t","i","o","n">> >> >>,
    <<"Metals", << <<"s","t","e","e","l">>, <<"a","l","u","m","i","n","u","m">>,
                   <<"m","e","t","a","l">>, <<"m","i","n","i","n","g">>,
                   <<"c","o","p","p","e","r">> >> >>
  >>

extractSectorsFromText(text) ==
  LET lowerText == toLowerCase(text)
      found == [i \in 1..Len(sectorKeywords) |->
                  \E k \in 1..Len(sectorKeywords[i][2]) :
                     includes(lowerText, toLowerCase(sectorKeywords[i][2][k]))]
  IN SelectIdx([i \in 1..Len(sectorKeywords) |-> sectorKeywords[i][1]], found, 1)

\* removeUrlsFromText. Every pattern but the last two needs one of the characters
\* : / . = < > & _ ' " \ to match, and the modelled texts hold none of them (see
\* TextChars), so on these texts the chain is its whitespace normalisation and trim.
removeUrlsFromText(text) == trim(collapseSpaces(text))

\* s.replace(/['"\\]{2,}/g, ' ').replace(/\s+/g, ' ').trim(), on texts without quotes.
cleanQuotesAndSpaces(s) == trim(collapseSpaces(s))

(***************************************************************************)
(* new RegExp(pattern, 'gi'): whether the constructor accepts the pattern. *)
(* Over the modelled characters the metacharacters are ( ) [ ] * +; a text *)
(* is rejected for an unterminated group, an unmatched ')', an             *)
(* unterminated character class or a quantifier with nothing to repeat.    *)
(***************************************************************************)
RECURSIVE regexScan(_, _, _, _, _)
regexScan(p, i, depth, inClass, canRepeat) ==
  IF i > Len(p) THEN ~inClass /\ depth = 0
  ELSE LET c == p[i] IN
       IF inClass
       THEN regexScan(p, i + 1, depth, c # "]", c = "]")
       ELSE CASE c = "[" -> regexScan(p, i + 1, depth, TRUE, FALSE)
              [] c = "(" -> regexScan(p, i + 1, depth + 1, FALSE, FALSE)
              [] c = ")" -> depth > 0 /\ regexScan(p, i + 1, depth - 1, FALSE, TRUE)
              [] c \in {"*", "+"} -> canRepeat /\ regexScan(p, i + 1, depth, FALSE, FALSE)
              [] OTHER -> regexScan(p, i + 1, depth, FALSE, TRUE)

RegExpAccepts(pattern) == regexScan(pattern, 1, 0, FALSE, FALSE)

commonCompanyIndicators ==
  << <<"L","i","m","i","t","e","d">>, <<"L","t","d">>,
     <<"I","n","d","u","s","t","r","i","e","s">>, <<"B","a","n","k">>,
     <<"C","o","r","p">>, <<"C","o","m","p","a","n","y">>, <<"I","n","c">> >>

\* extractCompanyName. The NSE: pattern needs a ':' and the modelled texts hold none.
extractCompanyName(title) ==
  LET words == splitOnSpace(title)
      hit(i) == \E k \in 1..Len(commonCompanyIndicators) :
                   includes(words[i + 1], commonCompanyIndicators[k])
      firstThree == joinWithSpace(slice(words, 0, 3))
  IN IF \E i \in 1..(Len(words) - 1) : hit(i)
     THEN LET i == CHOOSE j \in 1..(Len(words) - 1) :
                      hit(j) /\ \A m \in 1..(j - 1) : ~hit(m)
          IN joinWithSpace(slice(words, 0, i + 1))
     ELSE IF firstThree # <<>> THEN firstThree
          ELSE <<"T","h","e"," ","c","o","m","p","a","n","y">>

IsDigit(c) == c \in {"0","1","2","3","4","5","6","7","8","9"}

\* title.match(/(\d+)%/): the digits of the leftmost match, <<>> when there is none.
percentMatch(title) ==
  LET ends(i, k) == /\ k < Len(title)
                    /\ title[k + 1] = "%"
                    /\ \A j \in i..k : IsDigit(title[j])
      starts(i) == \E k \in i..Len(title) : ends(i, k)
  IN IF \E i \in 1..Len(title) : starts(i)
     THEN LET i == CHOOSE j \in 1..Len(title) : starts(j) /\ \A m \in 1..(j - 1) : ~starts(m)
              k == CHOOSE e \in i..Len(title) : ends(i, e)
          IN SubSeq(title, i, k)
     ELSE <<>>

extractPerformanceData(title) ==
  IF includes(title, <<"%">>) /\ percentMatch(title) # <<>>
  THEN percentMatch(title) \o <<"% positive">>
  ELSE IF includes(title, <<"u","p">>) \/ includes(title, <<"g","a","i","n">>)
       THEN <<"strong positive">>
  ELSE IF includes(title, <<"d","o","w","n">>) \/ includes(title, <<"f","a","l","l">>)
       THEN <<"declining">>
  ELSE <<"notable">>

\* The generate...Summary templates; each fixed stretch of text is one element.
generatePerformanceSummary(title) ==
  extractCompanyName(title) \o <<" has shown ">> \o extractPerformanceData(title)
    \o <<" performance in recent trading sessions. ...">>

generateIPOSummary(title) ==
  extractCompanyName(title) \o <<" is generating significant investor interest ...">>

generateEarningsSummary(title) ==
  extractCompanyName(title) \o <<" is set to announce its quarterly financial results ...">>

generateCorporateSummary(title) ==
  extractCompanyName(title) \o <<" is under spotlight regarding corporate governance ...">>

generateVisaSummary(title) == <<"The H-1B visa fee changes are creating ...">>

generatePolicySummary(title) == <<"The latest policy developments are set to ...">>

generateGeneralSummary(title) ==
  extractCompanyName(title) \o <<" is making headlines in the Indian financial markets ...">>

hasAny(title, needles) == \E k \in 1..Len(needles) : includes(title, needles[k])

\* A function that either returns a value or throws.
Returned(v) == [ok |-> TRUE, value |-> v]

Thrown == [ok |-> FALSE, value |-> "SyntaxError"]

\* createDetailedSummary: the RegExp built from the title's first 30 characters is
\* only constructed when the description contains them (ignoring case).
createDetailedSummary(description, title) ==
  LET cleanContent == cleanQuotesAndSpaces(description)
      cleanTitle == cleanQuotesAndSpaces(title)
      generatedSummary ==
        IF hasAny(cleanTitle, << <<"%">>, <<"g","a","i","n">>, <<"u","p">>,
                                 <<"r","e","t","u","r","n">> >>)
        THEN generatePerformanceSummary(cleanTitle)
        ELSE IF hasAny(cleanTitle, << <<"I","P","O">>, <<"l","i","s","t","i","n","g">>,
                                      <<"w","a","t","c","h","l","i","s","t">> >>)
        THEN generateIPOSummary(cleanTitle)
        ELSE IF hasAny(cleanTitle, << <<"e","a","r","n","i","n","g","s">>,
                                      <<"r","e","s","u","l","t","s">>,
                                      <<"q","u","a","r","t","e","r">>,
                                      <<"Q","2">>, <<"Q","3">> >>)
        THEN generateEarningsSummary(cleanTitle)
        ELSE IF hasAny(cleanTitle, << <<"C","E","O">>,
                                      <<"c","o","m","p","e","n","s","a","t","i","o","n">>,
                                      <<"e","x","e","c","u","t","i","v","e">> >>)
        THEN generateCorporateSummary(cleanTitle)
        ELSE IF hasAny(cleanTitle, << <<"H","-","1","B">>, <<"v","i","s","a">>,
                                      <<"f","e","e">> >>)
        THEN generateVisaSummary(cleanTitle)
        ELSE IF hasAny(cleanTitle, << <<"G","S","T">>, <<"p","o","l","i","c","y">>,
                                      <<"g","o","v","e","r","n","m","e","n","t">> >>)
        THEN generatePolicySummary(cleanTitle)
        ELSE generateGeneralSummary(cleanTitle)
  IN IF /\ includes(toLowerCase(cleanContent),
                    substring0(toLowerCase(cleanTitle), TITLE_PREFIX_LEN))
        /\ ~RegExpAccepts(substring0(cleanTitle, TITLE_PREFIX_LEN))
     THEN Thrown
     ELSE Returned(generatedSummary)

MarketNewsUpdate ==
  <<"M","a","r","k","e","t"," ","N","e","w","s"," ","U","p","d","a","t","e">>

FinancialNewsArticle ==
  <<"F","i","n","a","n","c","i","a","l"," ","n","e","w","s"," ",
    "a","r","t","i","c","l","e">>

\* x || y on strings: the empty string is falsy.
orElse(x, y) == IF x # <<>> THEN x ELSE y

getFallbackProcessing(title, description) ==
  LET cleanTitle == orElse(trim(title), MarketNewsUpdate)
      cleanDescription == orElse(description, orElse(title, FinancialNewsArticle))
      summary == createDetailedSummary(removeUrlsFromText(cleanDescription), cleanTitle)
  IN IF ~summary.ok THEN Thrown
     ELSE Returned([headline |-> cleanTitle,
                    summary |-> summary.value,
                    tickers |-> extractTickersFromText(title \o <<" ">> \o description),
                    sectors |-> extractSectorsFromText(title \o <<" ">> \o description),
                    tags |-> <<>>])

(***************************************************************************)
(* NewsService: URLs, deduplication, ordering.                             *)
(***************************************************************************)
Url(b, q, f, v) == [base |-> b, query |-> q, frag |-> f, valid |-> v]

\* normalizeUrl: protocol + host + pathname of a URL that parses, the text as it
\* is (query and fragment included) of one that does not.
normalizeUrl(url) ==
  IF url.valid THEN [url EXCEPT !.query = 0, !.frag = 0] ELSE url

\* deduplicateArticles: the filter with its seen set, from index i on.
RECURSIVE dedupFrom(_, _, _)
dedupFrom(articles, i, seen) ==
  IF i > Len(articles) THEN <<>>
  ELSE LET normalizedUrl == normalizeUrl(articles[i].url)
       IN IF normalizedUrl \in seen
          THEN dedupFrom(articles, i + 1, seen)
          ELSE <<articles[i]>> \o dedupFrom(articles, i + 1, seen \cup {normalizedUrl})

\* The filter with the seen set keyed by the URL as it is.
deduplicateArticlesByRawUrl(articles) ==
  LET keep == [i \in 1..Len(articles) |->
                 \A j \in 1..(i - 1) : articles[j].url # articles[i].url]
  IN SelectIdx(articles, keep, 1)

\* The filter keeping the last occurrence of each normalized URL.
deduplicateArticlesKeepsLast(articles) ==
  LET keep == [i \in 1..Len(articles) |->
                 \A j \in (i + 1)..Len(articles) :
                    normalizeUrl(articles[j].url) # normalizeUrl(articles[i].url)]
  IN SelectIdx(articles, keep, 1)

\* Lines 205-215.
deduplicateArticles(articles) == dedupFrom(articles, 1, {})

\* Array.prototype.sort with (a, b) => time(b) - time(a): stable, newest first.
\* keyed is the array as <<time, element>> pairs.
RECURSIVE insertDesc(_, _)
insertDesc(sorted, x) ==
  IF sorted = <<>> THEN <<x>>
  ELSE IF Head(sorted)[1] >= x[1]
       THEN <<Head(sorted)>> \o insertDesc(Tail(sorted), x)
       ELSE <<x>> \o sorted

RECURSIVE sortDescUpTo(_, _)
sortDescUpTo(keyed, n) ==
  IF n = 0 THEN <<>> ELSE insertDesc(sortDescUpTo(keyed, n - 1), keyed[n])

sortDesc(keyed) ==
  LET sorted == sortDescUpTo(keyed, Len(keyed))
  IN [i \in 1..Len(sorted) |-> sorted[i][2]]

sortByPublishedAt(items) ==
  sortDesc([i \in 1..Len(items) |-> <<items[i].publishedAt, items[i]>>])

sortByTimestamp(articles) ==
  sortDesc([i \in 1..Len(articles) |-> <<articles[i].timestamp, articles[i]>>])

(***************************************************************************)
(* MemStorage.                                                             *)
(***************************************************************************)
DEFAULT_LIMIT == 20

getNewsArticlesOfLimitAsEnd(articles, limit, offset) ==
  slice(sortByTimestamp(articles), offset, limit)

\* Lines 47-52: sort newest first, then slice(offset, offset + limit).
getNewsArticlesOf(articles, limit, offset) ==
  slice(sortByTimestamp(articles), offset, offset + limit)

getNewsArticles(limit, offset) == getNewsArticlesOf(store, limit, offset)

\* createNewsArticle: the id is the position in the map's insertion order.
createNewsArticle(articles, article) == Append(articles, article)

(***************************************************************************)
(* The inputs of the ingestion runs.                                       *)
(***************************************************************************)
PlainTitle == <<"T","C","S"," ","u","p">>

ParenTitle == <<"Q","3"," ","(","N","S","E">>

NewBase == PreloadCount + 1

Item(t, d, u, p) == [title |-> t, description |-> d, url |-> u, publishedAt |-> p]

\* The items the feeds carry. OldItem's URL is the one the preloaded store holds as
\* its oldest article; NewItem and QueryItem differ in the query string only;
\* ParenItem's title is not a valid RegExp source and its description repeats it.
OldItem == Item(PlainTitle, <<>>, Url(1, 0, 0, TRUE), 1)

NewItem == Item(PlainTitle, PlainTitle, Url(NewBase, 0, 0, TRUE), NewBase + 2)

QueryItem == Item(PlainTitle, <<>>, Url(NewBase, 1, 0, TRUE), NewBase + 2)

ParenItem == Item(ParenTitle, ParenTitle, Url(NewBase + 1, 0, 0, TRUE), NewBase + 1)

OtherItem == Item(PlainTitle, <<>>, Url(NewBase + 2, 0, 0, TRUE), NewBase)

FeedItems == {OldItem, NewItem, QueryItem, ParenItem, OtherItem}

\* RSS_FEEDS, in order, and the document each feed serves.
FeedOrder == <<"feedA", "feedB">>

Feeds == {FeedOrder[i] : i \in 1..Len(FeedOrder)}

FeedDocument ==
  [f \in Feeds |-> CASE f = "feedA" -> <<NewItem, ParenItem, OtherItem, OldItem>>
                      [] f = "feedB" -> <<QueryItem>>]

\* How the fetch of one feed ends: with a document, by the 10 s abort, with a
\* status that is not OK, or with a payload that holds no <item> element.
FeedOutcomes == {"ok", "timeout", "status", "malformed"}

FeedOutcomeChoices == [Feeds -> FeedOutcomes]

\* A feed promise that contributes the items of a response whose status is not OK.
feedPromiseIgnoresStatus(outcome, document) ==
  IF outcome \in {"ok", "status"} THEN document ELSE <<>>

\* Lines 41-63 with parseRSSFeed: the articles one feed promise resolves to.
feedPromise(outcome, document) ==
  CASE outcome = "ok" -> document
    [] outcome = "status" -> <<>>
    [] outcome = "timeout" -> <<>>
    [] outcome = "malformed" -> <<>>

\* Promise.allSettled(feedPromises): the value of every promise.
feedResultsOf(outcomes) ==
  [f \in Feeds |-> feedPromise(outcomes[f], FeedDocument[f])]

FeedResults == { feedResultsOf(outcomes) : outcomes \in FeedOutcomeChoices }

RECURSIVE concatFeeds(_, _)
concatFeeds(results, i) ==
  IF i > Len(FeedOrder) THEN <<>>
  ELSE results[FeedOrder[i]] \o concatFeeds(results, i + 1)

MAX_RECENT == 50

QUICK_BATCH == 3

BATCH_SIZE == 5

\* fetchLatestNews, lines 65-79: merge, deduplicate, sort newest first, keep 50.
recentArticlesOf(results) ==
  slice(sortByPublishedAt(deduplicateArticles(concatFeeds(results, 1))), 0, MAX_RECENT)

Preloaded(n) ==
  [i \in 1..n |-> [sourceUrl |-> Url(i, 0, 0, TRUE), timestamp |-> i,
                   isProcessed |-> TRUE, origin |-> "primary"]]

Runs == {"runA", "runB"}

NoResponse == [sent |-> FALSE, success |-> FALSE, fetched |-> 0, processed |-> 0, failed |-> 0]

\* getFallbackProcessing on each item the feeds carry.
FallbackOf == [item \in FeedItems |-> getFallbackProcessing(item.title, item.description)]

\* answered is kept for the properties: the feeds whose fetch gave a document.
IdleRun == [pc |-> "idle", phase |-> "priority", candidates |-> <<>>, idx |-> 0,
            processed |-> 0, failed |-> 0, log |-> <<>>, response |-> NoResponse,
            answered |-> {}]

(***************************************************************************)
(* OpenAIService.processNewsArticle: the cool-down guard and the catch.    *)
(***************************************************************************)
\* The guard with the end of the window included.
InCooldownInclusive ==
  quotaExceeded /\ now - lastQuotaCheck <= QUOTA_RESET_INTERVAL

\* Line 24: quotaExceeded && Date.now() - lastQuotaCheck < QUOTA_RESET_INTERVAL
InCooldown ==
  quotaExceeded /\ now - lastQuotaCheck < QUOTA_RESET_INTERVAL

PrimaryOutcomes == {"ok", "quota", "other"}

\* The test of the catch taken for every error.
IsQuotaErrorAny(outcome) == outcome # "ok"

\* error.message.includes('exceeded your current quota')
IsQuotaError(outcome) == outcome = "quota"

CatchError(outcome) ==
  IF IsQuotaError(outcome)
  THEN quotaExceeded' = TRUE /\ lastQuotaCheck' = now
  ELSE UNCHANGED <<quotaExceeded, lastQuotaCheck, marketVars, hookVars, liveVars>>


(***************************************************************************)
(* MarketDataService: the quote cache, the periodic broadcast and the      *)
(* sockets of the real-time channel.                                       *)
(***************************************************************************)
MaxMarketTicks == 2
MaxInFlight == 2

CACHE_DURATION == 10000
BROADCAST_INTERVAL == 5000

\* The sockets, named in the order in which they connect.
Clients == {"clientA", "clientB"}

ConnectsBefore == <<"clientA", "clientB">>

\* null, undefined
NoData == [none |-> TRUE]

\* The decimal digits of a natural number.
RECURSIVE Digits(_)
Digits(n) ==
  LET digit == <<"0", "1", "2", "3", "4", "5", "6", "7", "8", "9">>[(n % 10) + 1]
  IN IF n < 10 THEN <<digit>> ELSE Digits(n \div 10) \o <<digit>>

\* The en-IN grouping of Intl.NumberFormat: the last three digits, then pairs.
RECURSIVE groupPairs(_)
groupPairs(ds) ==
  IF Len(ds) <= 2 THEN ds
  ELSE groupPairs(SubSeq(ds, 1, Len(ds) - 2)) \o <<",">> \o SubSeq(ds, Len(ds) - 1, Len(ds))

\* formatNumber, for the whole numbers the quotes of the model are.
formatNumber(num) ==
  LET ds == Digits(IF num < 0 THEN 0 - num ELSE num)
      grouped == IF Len(ds) <= 3 THEN ds
                 ELSE groupPairs(SubSeq(ds, 1, Len(ds) - 3)) \o <<",">>
                        \o SubSeq(ds, Len(ds) - 2, Len(ds))
  IN (IF num < 0 THEN <<"-">> ELSE <<>>) \o grouped

formatChange(change) ==
  (IF change >= 0 THEN <<"+">> ELSE <<>>) \o formatNumber(change)

\* formatChangePercent((change / previous) * 100): toFixed(2) of the quotient,
\* rounded to the nearest hundredth, for previous > 0.
formatChangePercent(change, previous) ==
  LET magnitude == IF change < 0 THEN 0 - change ELSE change
      hundredths == (2 * 10000 * magnitude + previous) \div (2 * previous)
      fraction == Digits(100 + (hundredths % 100))
  IN (IF change >= 0 THEN <<"+">> ELSE <<"-">>)
       \o Digits(hundredths \div 100) \o <<".">> \o Tail(fraction) \o <<"%">>

\* What the quote source can answer to one getMarketData call: both charts with
\* a meta block, both without one, or a fetch or a json() that rejects.
QuoteOutcomes == {"quoted", "nometa", "fail"}

MetaOf(outcome) ==
  CASE outcome = "quoted" ->
         [nifty |-> [regularMarketPrice |-> 25400, previousClose |-> 25239],
          sensex |-> [regularMarketPrice |-> 82500, previousClose |-> 82696]]
    [] outcome = "nometa" -> [nifty |-> NoData, sensex |-> NoData]

\* Lines 105-149: the snapshot built from each answer that carries two charts,
\* before its lastUpdated is set.
SnapshotOf ==
  LET quoteField(quote, field, fallback) == IF quote = NoData THEN fallback ELSE quote[field]
      indexEntry(price, previous) ==
        [value |-> formatNumber(price),
         change |-> formatChange(price - previous),
         changePercent |-> formatChangePercent(price - previous, previous),
         isPositive |-> price - previous >= 0]
      marketData(meta) ==
        [nifty50 |-> indexEntry(quoteField(meta.nifty, "regularMarketPrice", 25330),
                                quoteField(meta.nifty, "previousClose", 25239)),
         sensex |-> indexEntry(quoteField(meta.sensex, "regularMarketPrice", 82876),
                               quoteField(meta.sensex, "previousClose", 82696)),
         marketStatus |-> "OPEN",
         marketTime |-> "9:15 AM - 3:30 PM",
         lastUpdated |-> 0]
  IN [outcome \in QuoteOutcomes \ {"fail"} |-> marketData(MetaOf(outcome))]

marketDataOf(outcome, t) == [SnapshotOf[outcome] EXCEPT !.lastUpdated = t]

\* Lines 165-181, the static snapshot.
fallbackData(t) ==
  [nifty50 |-> [value |-> <<"2", "5", ",", "3", "3", "0", ".", "2", "5">>,
                change |-> <<"+", "9", "1", ".", "2", "5">>,
                changePercent |-> <<"+", "0", ".", "3", "6", "%">>,
                isPositive |-> TRUE],
   sensex |-> [value |-> <<"8", "2", ",", "8", "7", "6", ".", "0", "0">>,
               change |-> <<"+", "1", "8", "0", ".", "4", "5">>,
               changePercent |-> <<"+", "0", ".", "2", "2", "%">>,
               isPositive |-> TRUE],
   marketStatus |-> "OPEN",
   marketTime |-> "9:15 AM - 3:30 PM",
   lastUpdated |-> t]

\* { ...data, lastUpdated: new Date().toISOString() }
withTimestamp(data, t) == [data EXCEPT !.lastUpdated = t]

\* Line 85.
cacheIsFresh(data, fetchedAt, t) ==
  data # NoData /\ (t - fetchedAt) < CACHE_DURATION

broadcastToClientsAnyState(server, clients, data) ==
  IF ~server THEN clients
  ELSE [c \in Clients |->
          IF clients[c].readyState # "NONE"
          THEN [clients[c] EXCEPT !.inbox = Append(@, [type |-> "market-update", data |-> data])]
          ELSE clients[c]]

\* broadcastToClients: the same message to every client whose socket is open.
broadcastToClients(server, clients, data) ==
  IF ~server THEN clients
  ELSE [c \in Clients |->
          IF clients[c].readyState = "OPEN"
          THEN [clients[c] EXCEPT !.inbox = Append(@, [type |-> "market-update", data |-> data])]
          ELSE clients[c]]

\* The callers of getMarketData: startBroadcasting's first fetchAndBroadcast,
\* the ones of the interval, and GET /api/market-summary.
Broadcasters == {"startup", "interval"}

\* What the caller does with the snapshot getMarketData has returned to it:
\* fetchAndBroadcast broadcasts it with a new timestamp, and startBroadcasting
\* then installs the interval; the route sends it as the response.
afterGetMarketData(by, result, timer, server) ==
  /\ sockets' = IF by \in Broadcasters
                THEN broadcastToClients(server, sockets, withTimestamp(result, now))
                ELSE sockets
  /\ broadcastTimer' = IF by = "startup"
                       THEN [installed |-> TRUE, due |-> now + BROADCAST_INTERVAL]
                       ELSE timer

\* The record of a call and of a return, kept for the properties.
logCall(log, by, hit, result) ==
  [log EXCEPT !.lastCall = IF hit THEN result ELSE NoData,
              !.started = IF by \in Broadcasters THEN @ + 1 ELSE @]

logReturn(log, by, cause, result) ==
  [log EXCEPT !.broadcasts = IF by \in Broadcasters THEN @ + 1 ELSE @,
              !.lastReturn = [by |-> by, cause |-> cause, result |-> result]]

CallRefreshesCache(by, timer, log, server) ==
  /\ cacheIsFresh(cachedData, lastFetchTime, now) \/ Len(fetches) < MaxInFlight
  /\ IF cacheIsFresh(cachedData, lastFetchTime, now)
     THEN LET result == withTimestamp(cachedData, now)
          IN /\ fetches' = fetches
             /\ afterGetMarketData(by, result, timer, server)
             /\ marketLog' = logReturn(logCall(log, by, TRUE, result), by, "hit", result)
             /\ cachedData' = result
     ELSE /\ fetches' = Append(fetches, [now |-> now, by |-> by])
          /\ sockets' = sockets
          /\ broadcastTimer' = timer
          /\ marketLog' = logCall(log, by, FALSE, NoData)
          /\ cachedData' = cachedData
  /\ UNCHANGED lastFetchTime

\* Lines 81-90 and the call of fetch: a fresh cache answers at once, otherwise
\* the call waits for the quote source with the time it has read at line 82.
Call(by, timer, log, server) ==
  /\ cacheIsFresh(cachedData, lastFetchTime, now) \/ Len(fetches) < MaxInFlight
  /\ IF cacheIsFresh(cachedData, lastFetchTime, now)
     THEN LET result == withTimestamp(cachedData, now)
          IN /\ fetches' = fetches
             /\ afterGetMarketData(by, result, timer, server)
             /\ marketLog' = logReturn(logCall(log, by, TRUE, result), by, "hit", result)
     ELSE /\ fetches' = Append(fetches, [now |-> now, by |-> by])
          /\ sockets' = sockets
          /\ broadcastTimer' = timer
          /\ marketLog' = logCall(log, by, FALSE, NoData)
  /\ UNCHANGED <<cachedData, lastFetchTime>>

OtherIdle ==
  UNCHANGED <<store, runs, quotaExceeded, lastQuotaCheck, failures,
              callers, history, caught, pin, pout, hookVars, liveVars>>

\* initialize: the server is created and startBroadcasting runs its first
\* fetchAndBroadcast.
Initialize ==
  /\ ~wss
  /\ wss' = TRUE
  /\ Call("startup", broadcastTimer, marketLog, TRUE)
  /\ UNCHANGED <<now, nticks>>
  /\ OtherIdle

\* The interval expires: its callback runs fetchAndBroadcast.
TimerFires ==
  /\ broadcastTimer.installed
  /\ now >= broadcastTimer.due
  /\ Call("interval",
          [broadcastTimer EXCEPT !.due = @ + BROADCAST_INTERVAL],
          [marketLog EXCEPT !.expiries = @ + 1, !.lastExpiry = now], wss)
  /\ UNCHANGED <<wss, now, nticks>>
  /\ OtherIdle

\* GET /api/market-summary.
RouteCall ==
  /\ Call("route", broadcastTimer, marketLog, wss)
  /\ UNCHANGED <<wss, now, nticks>>
  /\ OtherIdle

failureResultIgnoresCache(data, t) == fallbackData(t)

\* Lines 156-184, the catch block: the cached snapshot, or else the fallback.
failureResult(data, t) == IF data # NoData THEN data ELSE fallbackData(t)

\* Lines 92-185: the quote source answers the i-th waiting call.
getMarketDataSettles(i, outcome) ==
  LET call == fetches[i]
      result == IF outcome # "fail" THEN marketDataOf(outcome, now)
                ELSE failureResult(cachedData, now)
  IN /\ cachedData' = result
     /\ lastFetchTime' = IF outcome # "fail" THEN call.now ELSE lastFetchTime
     /\ fetches' = SubSeq(fetches, 1, i - 1) \o SubSeq(fetches, i + 1, Len(fetches))
     /\ afterGetMarketData(call.by, result, broadcastTimer, wss)
     /\ marketLog' = logReturn(marketLog, call.by, outcome, result)
     /\ UNCHANGED <<wss, now, nticks>>
     /\ OtherIdle

onConnectionSendsNothing(data) == <<>>

\* Lines 39-41: what the 'connection' handler sends to the new socket.
onConnection(data) ==
  IF data # NoData THEN <<[type |-> "market-update", data |-> data]>> ELSE <<>>

\* The 'connection' handler of initialize, lines 35-50.
ClientConnects(c) ==
  /\ wss
  /\ sockets[c].readyState = "NONE"
  /\ \A i \in 1..Len(ConnectsBefore) :
        ConnectsBefore[i] = c => \A j \in 1..(i - 1) : sockets[ConnectsBefore[j]].readyState # "NONE"
  /\ sockets' = [sockets EXCEPT ![c] =
                   [readyState |-> "OPEN", inbox |-> onConnection(cachedData)]]
  /\ UNCHANGED <<wss, cachedData, lastFetchTime, fetches, broadcastTimer, marketLog, now, nticks>>
  /\ OtherIdle

ClientCloses(c) ==
  /\ sockets[c].readyState = "OPEN"
  /\ sockets' = [sockets EXCEPT ![c].readyState = "CLOSED"]
  /\ UNCHANGED <<wss, cachedData, lastFetchTime, fetches, broadcastTimer, marketLog, now, nticks>>
  /\ OtherIdle

\* Time passes, never past an expiry of the interval.
MarketTick ==
  /\ nticks < MaxMarketTicks
  /\ ~(broadcastTimer.installed /\ now >= broadcastTimer.due)
  /\ now' = now + BROADCAST_INTERVAL
  /\ nticks' = nticks + 1
  /\ UNCHANGED marketVars
  /\ OtherIdle

NoLog ==
  [lastCall |-> NoData, lastReturn |-> [by |-> "none", cause |-> "none", result |-> NoData],
   started |-> 0, broadcasts |-> 0, expiries |-> 0, lastExpiry |-> 0]

MarketIdle ==
  /\ wss = FALSE
  /\ sockets = [c \in Clients |-> [readyState |-> "NONE", inbox |-> <<>>]]
  /\ cachedData = NoData
  /\ lastFetchTime = 0
  /\ fetches = <<>>
  /\ broadcastTimer = [installed |-> FALSE, due |-> 0]
  /\ marketLog = NoLog

(***************************************************************************)
(* useMarketWebSocket, the client hook of the real-time channel: its       *)
(* effect, connect and the handlers connect installs on every WebSocket.   *)
(* The snapshots that onmessage stores play no part in the connection's    *)
(* life and are left out.                                                  *)
(***************************************************************************)
MaxSockets == 3
MaxHookTicks == 3
MaxMounts == 2

RECONNECT_DELAY == 3000
NORMAL_CLOSURE == 1000

\* The codes of a close event: normal closure, and abnormal closure for every
\* other one.
CloseCodes == {NORMAL_CLOSURE, 1006}

\* connect, lines 63-119: a new WebSocket in wsRef, or the catch block when the
\* constructor throws.
connect(h, b, throws) ==
  IF throws
  THEN [hook |-> [h EXCEPT !.error = "Failed to connect"], browser |-> b]
  ELSE [hook |-> [h EXCEPT !.wsRef = Len(b.webSockets) + 1],
        browser |-> [b EXCEPT !.webSockets = Append(@, "CONNECTING")]]

OtherIdleHook ==
  UNCHANGED <<store, runs, quotaExceeded, lastQuotaCheck, failures,
              callers, history, caught, pin, pout, marketVars, liveVars>>

\* The effect of lines 121-134 runs: on mount, and again when React mounts the
\* component a second time with the same refs.
Mount(throws) ==
  /\ ~hook.effect
  /\ hook.mounts < MaxMounts
  /\ Len(browser.webSockets) < MaxSockets
  /\ LET next == connect([hook EXCEPT !.mountedRef = TRUE, !.effect = TRUE,
                                      !.mounts = @ + 1], browser, throws)
     IN hook' = next.hook /\ browser' = next.browser
  /\ UNCHANGED <<hookLog, now, nticks>>
  /\ OtherIdleHook

\* The cleanup of the effect, lines 125-133.
Unmount ==
  /\ hook.effect
  /\ hook' = [hook EXCEPT !.mountedRef = FALSE, !.effect = FALSE]
  /\ browser' = [browser EXCEPT
                   !.timeouts = [k \in 1..Len(@) |->
                                   IF k = hook.reconnectTimeoutRef
                                   THEN [@[k] EXCEPT !.pending = FALSE] ELSE @[k]],
                   !.webSockets = [i \in 1..Len(@) |->
                                     IF i = hook.wsRef /\ @[i] # "CLOSED"
                                     THEN "CLOSING" ELSE @[i]]]
  /\ hookLog' = [k \in 1..Len(hookLog) |->
                   IF hookLog[k].retriedAt = 0
                   THEN [hookLog[k] EXCEPT !.unmountedSince = TRUE] ELSE hookLog[k]]
  /\ UNCHANGED <<now, nticks>>
  /\ OtherIdleHook

\* The reconnect function the hook returns is connect itself.
Reconnect(throws) ==
  /\ hook.effect
  /\ Len(browser.webSockets) < MaxSockets
  /\ LET next == connect(hook, browser, throws)
     IN hook' = next.hook /\ browser' = next.browser
  /\ UNCHANGED <<hookLog, now, nticks>>
  /\ OtherIdleHook

\* ws.onopen, lines 74-79.
SocketOpens(i) ==
  /\ browser.webSockets[i] = "CONNECTING"
  /\ browser' = [browser EXCEPT !.webSockets[i] = "OPEN"]
  /\ hook' = IF ~hook.mountedRef THEN hook
             ELSE [hook EXCEPT !.isConnected = TRUE, !.error = "null"]
  /\ UNCHANGED <<hookLog, now, nticks>>
  /\ OtherIdleHook

\* ws.onerror, lines 110-114.
SocketError(i) ==
  /\ browser.webSockets[i] # "CLOSED"
  /\ hook.mountedRef
  /\ hook.error # "WebSocket connection error"
  /\ hook' = [hook EXCEPT !.error = "WebSocket connection error"]
  /\ UNCHANGED <<browser, hookLog, now, nticks>>
  /\ OtherIdleHook

shouldReconnectAnyCode(code, mounted) == mounted

\* Line 100.
shouldReconnect(code, mounted) == code # NORMAL_CLOSURE /\ mounted

\* ws.onclose, lines 93-108.
SocketCloses(i, code) ==
  /\ browser.webSockets[i] # "CLOSED"
  /\ LET retry == shouldReconnect(code, hook.mountedRef)
         closed == [browser EXCEPT !.webSockets[i] = "CLOSED"]
     IN IF ~hook.mountedRef
        THEN /\ browser' = closed
             /\ UNCHANGED <<hook, hookLog>>
        ELSE /\ hookLog' = Append(hookLog, [socket |-> i, code |-> code, at |-> now,
                                            unmountedSince |-> FALSE, retriedAt |-> 0])
             /\ browser' = IF retry
                           THEN [closed EXCEPT !.timeouts =
                                   Append(@, [due |-> now + RECONNECT_DELAY, pending |-> TRUE,
                                              close |-> Len(hookLog) + 1])]
                           ELSE closed
             /\ hook' = [hook EXCEPT
                           !.isConnected = FALSE,
                           !.wsRef = 0,
                           !.error = IF retry THEN "Connection lost, reconnecting..." ELSE @,
                           !.reconnectTimeoutRef =
                              IF retry THEN Len(browser.timeouts) + 1 ELSE @]
  /\ UNCHANGED <<now, nticks>>
  /\ OtherIdleHook

\* The callback of setTimeout, lines 103-107.
TimeoutFires(k, throws) ==
  /\ browser.timeouts[k].pending
  /\ now >= browser.timeouts[k].due
  /\ ~hook.mountedRef \/ Len(browser.webSockets) < MaxSockets
  /\ LET fired == [browser EXCEPT !.timeouts[k].pending = FALSE]
         next == connect(hook, fired, throws)
     IN IF hook.mountedRef
        THEN /\ hook' = next.hook
             /\ browser' = next.browser
             /\ hookLog' = [hookLog EXCEPT ![browser.timeouts[k].close].retriedAt = now]
        ELSE /\ browser' = fired
             /\ UNCHANGED <<hook, hookLog>>
  /\ UNCHANGED <<now, nticks>>
  /\ OtherIdleHook

\* Time passes, never past a pending timeout.
HookTick ==
  /\ nticks < MaxHookTicks
  /\ \A k \in 1..Len(browser.timeouts) :
        browser.timeouts[k].pending => now < browser.timeouts[k].due
  /\ now' = now + RECONNECT_DELAY
  /\ nticks' = nticks + 1
  /\ UNCHANGED hookVars
  /\ OtherIdleHook

\* Lines 56-61: the state and the refs of the first render.
HookIdle ==
  /\ hook = [mountedRef |-> TRUE, wsRef |-> 0, reconnectTimeoutRef |-> 0,
             isConnected |-> FALSE, error |-> "null", effect |-> FALSE, mounts |-> 0]
  /\ browser = [webSockets |-> <<>>, timeouts |-> <<>>]
  /\ hookLog = <<>>

(***************************************************************************)
(* The external calls of one ingestion run, each with the timer the code   *)
(* sets for it. A feed's fetch first awaits the response (status and       *)
(* headers), then its body; the enrichment call is the await of            *)
(* processNewsArticle.                                                     *)
(***************************************************************************)
MaxLiveTicks == 1

\* setTimeout(() => controller.abort(), 10000)
FETCH_TIMEOUT == 10000

NoTimer == [armed |-> FALSE, due |-> 0]

LiveIdle ==
  calls = [f \in Feeds |-> [fetch |-> "none", timer |-> NoTimer, articles |-> <<>>]]

\* Lines 41-46: every feed promise starts its fetch with its own abort timer.
LiveStart(r) ==
  /\ runs[r].pc = "idle"
  /\ \A f \in Feeds : calls[f].fetch = "none"
  /\ runs' = [runs EXCEPT ![r].pc = "fetching"]
  /\ calls' = [f \in Feeds |->
                 [fetch |-> "connecting",
                  timer |-> [armed |-> TRUE, due |-> now + FETCH_TIMEOUT],
                  articles |-> <<>>]]
  /\ UNCHANGED <<store, quotaExceeded, lastQuotaCheck, now, nticks, failures,
                 callers, history, caught, pin, pout, marketVars, hookVars>>

\* Lines 46-53: fetch resolves with the response; the timer is cleared, and a
\* status that is not OK ends the promise with no article.
HeadersArrive(f, ok) ==
  /\ calls[f].fetch = "connecting"
  /\ calls' = [calls EXCEPT ![f] =
                 [fetch |-> IF ok THEN "reading" ELSE "settled",
                  timer |-> [@.timer EXCEPT !.armed = FALSE],
                  articles |-> feedPromise("status", FeedDocument[f])]]
  /\ UNCHANGED <<store, runs, quotaExceeded, lastQuotaCheck, now, nticks, failures,
                 callers, history, caught, pin, pout, marketVars, hookVars>>

\* Lines 55-58: response.text() resolves and the document is parsed.
BodyArrives(f) ==
  /\ calls[f].fetch = "reading"
  /\ calls' = [calls EXCEPT ![f].fetch = "settled",
                            ![f].articles = feedPromise("ok", FeedDocument[f])]
  /\ UNCHANGED <<store, runs, quotaExceeded, lastQuotaCheck, now, nticks, failures,
                 callers, history, caught, pin, pout, marketVars, hookVars>>

\* The abort timer expires: fetch rejects and the catch of lines 59-62 ends
\* the promise with no article.
AbortFires(f) ==
  /\ calls[f].timer.armed
  /\ now >= calls[f].timer.due
  /\ calls' = [calls EXCEPT ![f] =
                 [fetch |-> "settled",
                  timer |-> [@.timer EXCEPT !.armed = FALSE],
                  articles |-> feedPromise("timeout", FeedDocument[f])]]
  /\ UNCHANGED <<store, runs, quotaExceeded, lastQuotaCheck, now, nticks, failures,
                 callers, history, caught, pin, pout, marketVars, hookVars>>

\* Time passes while an abort timer is running, up to its expiry.
LiveTick ==
  /\ nticks < MaxLiveTicks
  /\ \E f \in Feeds : calls[f].timer.armed /\ now < calls[f].timer.due
  /\ now' = now + FETCH_TIMEOUT
  /\ nticks' = nticks + 1
  /\ UNCHANGED <<store, runs, quotaExceeded, lastQuotaCheck, failures,
                 callers, history, caught, pin, pout, calls, marketVars, hookVars>>
(***************************************************************************)
(* NewsService.fetchLatestNews and processAndStoreArticle, one action per  *)
(* stretch of code between two suspension points that wait for the network *)
(* or for a timer.                                                         *)
(***************************************************************************)
\* The article built at lines 282-292 and its timestamp (storage.ts line 63).
ArticleOf(item, isProcessed, origin) ==
  [sourceUrl |-> item.url, timestamp |-> item.publishedAt,
   isProcessed |-> isProcessed, origin |-> origin]

\* Lines 249-250: the existence check reads storage.getNewsArticles().
existsInStore(url) ==
  LET existingArticles == getNewsArticles(DEFAULT_LIMIT, 0)
  IN \E i \in 1..Len(existingArticles) : existingArticles[i].sourceUrl = url

\* The counters without the branch for skipped items.
countResultNoSkipBranch(run, result) ==
  [run EXCEPT !.processed = IF result = "success" THEN @ + 1 ELSE @,
              !.failed = IF result # "success" THEN @ + 1 ELSE @]

\* Lines 94-100: the counters of the priority loop.
countResult(run, result) ==
  [run EXCEPT !.processed = IF result = "success" THEN @ + 1 ELSE @,
              !.failed = IF result = "success" \/ result = "skipped" THEN @ ELSE @ + 1]

\* The return value with fetched taken from the priority batch.
statsOfQuickBatch(recentArticles, processed, failed) ==
  [sent |-> TRUE, success |-> TRUE,
   fetched |-> Len(slice(recentArticles, 0, QUICK_BATCH)),
   processed |-> processed, failed |-> failed]

\* Lines 108-115: the return value of fetchLatestNews.
statsOf(recentArticles, processed, failed) ==
  [sent |-> TRUE, success |-> TRUE, fetched |-> Len(recentArticles),
   processed |-> processed, failed |-> failed]

\* Lines 92-115 and 230-243: what follows the result of one item.
AfterItem(run, url, result, origin) ==
  LET logged == [run EXCEPT !.log = Append(@, [url |-> url, result |-> result,
                                                 origin |-> origin])]
      n == Len(run.candidates)
  IN IF run.phase = "priority"
     THEN LET counted == countResult(logged, result)
          IN IF run.idx < Len(slice(run.candidates, 0, QUICK_BATCH))
             THEN [counted EXCEPT !.idx = @ + 1, !.pc = "check"]
             ELSE LET answered == [counted EXCEPT !.response =
                                     statsOf(run.candidates, counted.processed,
                                             counted.failed)]
                  IN IF n > QUICK_BATCH
                     THEN [answered EXCEPT !.phase = "background",
                                           !.idx = QUICK_BATCH + 1, !.pc = "check"]
                     ELSE [answered EXCEPT !.pc = "done"]
     ELSE IF (run.idx - QUICK_BATCH) % BATCH_SIZE = 0 \/ run.idx = n
          THEN [run EXCEPT !.pc = "delay"]
          ELSE [run EXCEPT !.idx = @ + 1, !.pc = "check"]

\* Lines 259-298 once processNewsArticle has settled: `enriched` is what it
\* returned, or Thrown.
StoreEnriched(r, item, enriched, origin) ==
  IF enriched.ok
  THEN /\ store' = createNewsArticle(store, ArticleOf(item, TRUE, origin))
       /\ runs' = [runs EXCEPT ![r] = AfterItem(@, item.url, "success", origin)]
  ELSE /\ store' = createNewsArticle(store, ArticleOf(item, FALSE, "basic"))
       /\ runs' = [runs EXCEPT ![r] = AfterItem(@, item.url, "failure", "basic")]

StartRun(r) ==
  /\ runs[r].pc = "idle"
  /\ runs' = [runs EXCEPT ![r].pc = "fetching"]
  /\ UNCHANGED <<store, quotaExceeded, lastQuotaCheck, now, nticks, failures,
                 callers, history, caught, pin, pout, marketVars, hookVars, liveVars>>

\* Promise.allSettled(feedPromises) resolves: lines 65-90.
FeedsSettled(r, outcomes) ==
  /\ runs[r].pc = "fetching"
  /\ LET recentArticles == recentArticlesOf(feedResultsOf(outcomes))
         settled == [runs[r] EXCEPT !.answered = {f \in Feeds : outcomes[f] = "ok"}]
     IN runs' = [runs EXCEPT ![r] =
          IF Len(recentArticles) = 0
          THEN [settled EXCEPT !.pc = "done",
                               !.response = [sent |-> TRUE, success |-> TRUE, fetched |-> 0,
                                             processed |-> 0, failed |-> 0]]
          ELSE [settled EXCEPT !.pc = "check", !.candidates = recentArticles, !.idx = 1]]
  /\ UNCHANGED <<store, quotaExceeded, lastQuotaCheck, now, nticks, failures,
                 callers, history, caught, pin, pout, marketVars, hookVars, liveVars>>

\* processAndStoreArticle up to the network call: the existence check, the
\* cool-down guard and, in cool-down, the fallback and the insert.
CheckAndCall(r) ==
  /\ runs[r].pc = "check"
  /\ LET item == runs[r].candidates[runs[r].idx]
     IN IF existsInStore(item.url)
        THEN /\ runs' = [runs EXCEPT ![r] = AfterItem(@, item.url, "skipped", "none")]
             /\ UNCHANGED store
        ELSE IF InCooldown
        THEN StoreEnriched(r, item,
                           FallbackOf[item], "fallback")
        ELSE /\ runs' = [runs EXCEPT ![r].pc = "awaitAI"]
             /\ UNCHANGED store
  /\ UNCHANGED <<quotaExceeded, lastQuotaCheck, now, nticks, failures,
                 callers, history, caught, pin, pout, marketVars, hookVars, liveVars>>

\* The chat completion settles: the validated result, or the catch and the fallback.
PrimaryReturns(r, outcome) ==
  /\ runs[r].pc = "awaitAI"
  /\ outcome # "ok" => failures < MaxFailures
  /\ failures' = IF outcome = "ok" THEN failures ELSE failures + 1
  /\ LET item == runs[r].candidates[runs[r].idx]
     IN IF outcome = "ok"
        THEN /\ StoreEnriched(r, item, Returned("primary"), "primary")
             /\ UNCHANGED <<quotaExceeded, lastQuotaCheck, marketVars, hookVars, liveVars>>
        ELSE /\ CatchError(outcome)
             /\ StoreEnriched(r, item,
                              FallbackOf[item],
                              "fallback")
  /\ UNCHANGED <<now, nticks, callers, history, caught, pin, pout, marketVars, hookVars, liveVars>>

\* The 2000 ms pause after a background batch.
BatchDelay(r) ==
  /\ runs[r].pc = "delay"
  /\ runs' = [runs EXCEPT ![r] =
       IF @.idx = Len(@.candidates)
       THEN [@ EXCEPT !.pc = "done"]
       ELSE [@ EXCEPT !.idx = @ + 1, !.pc = "check"]]
  /\ UNCHANGED <<store, quotaExceeded, lastQuotaCheck, now, nticks, failures,
                 callers, history, caught, pin, pout, marketVars, hookVars, liveVars>>

NoCallers == <<>>

NoInput == [fn |-> "none"]

NoOutput == [done |-> FALSE]

\* The clock advances. In Spec it only takes the enricher out of its cool-down.
SpecTicks == 1

TickSteps == {1, QUOTA_RESET_INTERVAL - 1}

Tick(d) ==
  /\ nticks < MaxTicks
  /\ now' = now + d
  /\ nticks' = nticks + 1
  /\ UNCHANGED <<store, runs, quotaExceeded, lastQuotaCheck, failures,
                 callers, history, caught, pin, pout, marketVars, hookVars, liveVars>>

Init ==
  /\ store \in {Preloaded(0), Preloaded(PreloadCount)}
  /\ runs = [r \in Runs |-> IdleRun]
  /\ quotaExceeded = FALSE
  /\ lastQuotaCheck = 0
  /\ now = 1
  /\ nticks = 0
  /\ failures = 0
  /\ callers = NoCallers
  /\ history = <<>>
  /\ caught = {}
  /\ pin = NoInput
  /\ pout = NoOutput
  /\ MarketIdle
  /\ HookIdle
  /\ LiveIdle

Next ==
  \/ \E r \in Runs : StartRun(r)
  \/ \E r \in Runs : \E outcomes \in FeedOutcomeChoices : FeedsSettled(r, outcomes)
  \/ \E r \in Runs : CheckAndCall(r)
  \/ \E r \in Runs : \E outcome \in PrimaryOutcomes : PrimaryReturns(r, outcome)
  \/ \E r \in Runs : BatchDelay(r)
  \/ InCooldown /\ nticks < SpecTicks /\ Tick(QUOTA_RESET_INTERVAL)

Spec == Init /\ [][Next]_vars

(***************************************************************************)
(* SpecEnrich: OpenAIService.processNewsArticle called by overlapping      *)
(* callers (the runs' priority and background loops) while time passes.    *)
(***************************************************************************)
Callers == {"c1", "c2"}

IdleCaller == [pc |-> "idle"]

\* Lines 22-66: the guard, then either the fallback or the start of the call.
Request(c) ==
  /\ callers[c].pc = "idle"
  /\ Len(history) < MaxRequests
  /\ history' = Append(history,
                       [at |-> now, known |-> caught,
                        path |-> IF InCooldown THEN "fallback" ELSE "primary"])
  /\ callers' = [callers EXCEPT ![c].pc = IF InCooldown THEN "idle" ELSE "inflight"]
  /\ UNCHANGED <<store, runs, quotaExceeded, lastQuotaCheck, now, nticks, failures,
                 caught, pin, pout, marketVars, hookVars, liveVars>>

\* Lines 68-95: the call settles.
Settle(c, outcome) ==
  /\ callers[c].pc = "inflight"
  /\ callers' = [callers EXCEPT ![c].pc = "idle"]
  /\ IF outcome = "ok"
     THEN UNCHANGED <<quotaExceeded, lastQuotaCheck, caught, marketVars, hookVars, liveVars>>
     ELSE /\ CatchError(outcome)
          /\ caught' = caught \cup {[at |-> now, error |-> outcome]}
  /\ UNCHANGED <<store, runs, now, nticks, failures, history, pin, pout, marketVars, hookVars, liveVars>>

InitEnrich ==
  /\ store = <<>>
  /\ runs = [r \in Runs |-> IdleRun]
  /\ quotaExceeded = FALSE
  /\ lastQuotaCheck = 0
  /\ now = 1
  /\ nticks = 0
  /\ failures = 0
  /\ callers = [c \in Callers |-> IdleCaller]
  /\ history = <<>>
  /\ caught = {}
  /\ pin = NoInput
  /\ pout = NoOutput
  /\ MarketIdle
  /\ HookIdle
  /\ LiveIdle

NextEnrich ==
  \/ \E c \in Callers : Request(c)
  \/ \E c \in Callers : \E outcome \in PrimaryOutcomes : Settle(c, outcome)
  \/ \E d \in TickSteps : Tick(d)

SpecEnrich == InitEnrich /\ [][NextEnrich]_vars

(***************************************************************************)
(* SpecDedup and SpecFallback: pure functions applied to bounded inputs.   *)
(***************************************************************************)
RECURSIVE SeqsUpTo(_, _)
SeqsUpTo(S, n) ==
  IF n = 0 THEN {<<>>}
  ELSE LET shorter == SeqsUpTo(S, n - 1)
       IN shorter \cup { Append(s, x) : s \in { t \in shorter : Len(t) = n - 1 }, x \in S }

\* The characters of the generated titles: letters in both cases, the space and
\* the RegExp metacharacters the feeds' titles carry.
TextChars == {"a", "A", " ", "(", ")", "*", "["}

Titles == SeqsUpTo(TextChars, MaxTitleLen) \cup {PlainTitle, ParenTitle}

\* Company names of the dictionary, joined by spaces: the first k of them.
CompanyNames ==
  << <<"t","c","s">>, <<"h","c","l">>, <<"s","b","i">>, <<"r","i","l">>,
     <<"l","i","c">>, <<"i","o","c">>, <<"i","t","c">>, <<"h","u","l">>,
     <<"a","c","c">>, <<"j","s","l">> >>

NamesText(k) == joinWithSpace(slice(CompanyNames, 0, k))

DescriptionsFor(title) ==
  {<<>>, title, <<"a", " ">> \o toUpperCase(title)}
    \cup { NamesText(k) : k \in {TICKER_LIMIT, MaxNames} }

DedupUrls ==
  { Url(b, q, f, v) : b \in {1, 2}, q \in {0, 1}, f \in {0, 1}, v \in {TRUE, FALSE} }

DedupInputs ==
  { [i \in 1..Len(urls) |-> Item(<<"a">>, <<>>, urls[i], i)] :
      urls \in SeqsUpTo(DedupUrls, MaxDedupLen) }

ApplyDedup ==
  /\ pin.fn = "deduplicateArticles"
  /\ ~pout.done
  /\ pout' = [done |-> TRUE, value |-> deduplicateArticles(pin.articles)]
  /\ UNCHANGED <<store, runs, quotaExceeded, lastQuotaCheck, now, nticks, failures,
                 callers, history, caught, pin, marketVars, hookVars, liveVars>>

ApplyFallback ==
  /\ pin.fn = "getFallbackProcessing"
  /\ ~pout.done
  /\ pout' = [done |-> TRUE, value |-> getFallbackProcessing(pin.title, pin.description)]
  /\ UNCHANGED <<store, runs, quotaExceeded, lastQuotaCheck, now, nticks, failures,
                 callers, history, caught, pin, marketVars, hookVars, liveVars>>

PureIdle ==
  /\ store = <<>>
  /\ runs = [r \in Runs |-> IdleRun]
  /\ quotaExceeded = FALSE
  /\ lastQuotaCheck = 0
  /\ now = 1
  /\ nticks = 0
  /\ failures = 0
  /\ callers = NoCallers
  /\ history = <<>>
  /\ caught = {}
  /\ pout = NoOutput
  /\ MarketIdle
  /\ HookIdle
  /\ LiveIdle

InitDedup ==
  /\ PureIdle
  /\ pin \in { [fn |-> "deduplicateArticles", articles |-> a] : a \in DedupInputs }

NextDedup == ApplyDedup

SpecDedup == InitDedup /\ [][NextDedup]_vars

\* A description longer than the 300 characters the primary path keeps of one:
\* the company names, over and over.
LongDescription ==
  joinWithSpace([i \in 1..(8 * Len(CompanyNames)) |->
                   CompanyNames[((i - 1) % Len(CompanyNames)) + 1]])

InitFallback ==
  /\ PureIdle
  /\ pin \in UNION { { [fn |-> "getFallbackProcessing", title |-> t, description |-> d] :
                         d \in DescriptionsFor(t) } : t \in Titles }
               \cup { [fn |-> "getFallbackProcessing", title |-> t,
                       description |-> LongDescription] : t \in {PlainTitle, <<"a">>} }

NextFallback == ApplyFallback

SpecFallback == InitFallback /\ [][NextFallback]_vars


(***************************************************************************)
(* SpecSearch: MemStorage.searchNewsArticles applied to bounded stores and *)
(* queries. GET /api/news/search answers 400 for a missing or empty q and  *)
(* passes every other q to the storage unchanged.                          *)
(***************************************************************************)
MaxQueryLen == 3
MaxSearchStore == 2

SEARCH_LIMIT == 20

\* The text searchNewsArticles builds for one article.
searchTextOf(article) ==
  toLowerCase(article.headline \o <<" ">> \o article.summary \o <<" ">>
                \o joinWithSpace(article.tags) \o <<" ">>
                \o joinWithSpace(article.tickers) \o <<" ">>
                \o joinWithSpace(article.sectors))

searchNewsArticlesOf(articles, query, limit) ==
  LET searchTerms == splitOnSpace(toLowerCase(query))
      keep == [i \in 1..Len(articles) |->
                 \E k \in 1..Len(searchTerms) :
                    includes(searchTextOf(articles[i]), searchTerms[k])]
  IN slice(sortByTimestamp(SelectIdx(articles, keep, 1)), 0, limit)

\* The articles the searched stores are made of: the term in each of the five
\* fields, in either case, and one article that carries neither letter.
SearchBodies ==
  { [headline |-> <<"t", "x">>, summary |-> <<>>, tags |-> <<>>, tickers |-> <<>>, sectors |-> <<>>],
    [headline |-> <<"y">>, summary |-> <<"T">>, tags |-> <<>>, tickers |-> <<>>, sectors |-> <<>>],
    [headline |-> <<"y">>, summary |-> <<>>, tags |-> << <<"x">> >>, tickers |-> <<>>, sectors |-> <<>>],
    [headline |-> <<"y">>, summary |-> <<>>, tags |-> <<>>, tickers |-> << <<"T", "X">> >>, sectors |-> <<>>],
    [headline |-> <<"y">>, summary |-> <<>>, tags |-> <<>>, tickers |-> <<>>, sectors |-> << <<"t">>, <<"x">> >>],
    [headline |-> <<"y">>, summary |-> <<"y">>, tags |-> <<>>, tickers |-> <<>>, sectors |-> <<>>] }

\* A store: the bodies in insertion order, the i-th created at time i.
SearchStores ==
  LET storeOf(bodies) ==
        [i \in 1..Len(bodies) |->
           [id |-> i, timestamp |-> i, headline |-> bodies[i].headline,
            summary |-> bodies[i].summary, tags |-> bodies[i].tags,
            tickers |-> bodies[i].tickers, sectors |-> bodies[i].sectors]]
  IN { storeOf(bodies) : bodies \in SeqsUpTo(SearchBodies, MaxSearchStore) }
       \cup { storeOf([i \in 1..(SEARCH_LIMIT + 1) |->
                [headline |-> <<"t">>, summary |-> <<>>, tags |-> <<>>,
                 tickers |-> <<>>, sectors |-> <<>>]]) }

SearchQueries == SeqsUpTo({"t", "T", "x", " "}, MaxQueryLen) \ {<<>>}

ApplySearch ==
  /\ pin.fn = "searchNewsArticles"
  /\ ~pout.done
  /\ pout' = [done |-> TRUE,
              value |-> searchNewsArticlesOf(pin.articles, pin.query, SEARCH_LIMIT)]
  /\ UNCHANGED <<store, runs, quotaExceeded, lastQuotaCheck, now, nticks, failures,
                 callers, history, caught, pin, marketVars, hookVars, liveVars>>

InitSearch ==
  /\ PureIdle
  /\ pin \in { [fn |-> "searchNewsArticles", articles |-> a, query |-> q] :
                 a \in SearchStores, q \in SearchQueries }

NextSearch == ApplySearch

SpecSearch == InitSearch /\ [][NextSearch]_vars

(***************************************************************************)
(* SpecClean: the two text sanitizers applied to bounded texts.            *)
(*   cleanHtmlTags           NewsService, on every raw title, description  *)
(*   cleanSummaryForDisplay  MemStorage.getNewsArticles, on every summary  *)
(***************************************************************************)
MaxCleanLen == 5

\* text.replace(/<[^>]*>/g, ''): every "<" through the next ">", left to right.
RECURSIVE removeTags(_)
removeTags(s) ==
  LET starts == { i \in 1..Len(s) : s[i] = "<" /\ \E j \in (i + 1)..Len(s) : s[j] = ">" }
  IN IF starts = {} THEN s
  ELSE LET i == CHOOSE x \in starts : \A y \in starts : x <= y
           k == CHOOSE j \in (i + 1)..Len(s) :
                       s[j] = ">" /\ \A m \in (i + 1)..(j - 1) : s[m] # ">"
       IN SubSeq(s, 1, i - 1) \o removeTags(SubSeq(s, k + 1, Len(s)))

\* text.replace(/&[^;]+;/g, ' '): an "&", one or more characters other than
\* ";", and the ";" that follows them.
RECURSIVE replaceEntities(_)
replaceEntities(s) ==
  LET starts == { i \in 1..(Len(s) - 2) :
                    s[i] = "&" /\ s[i + 1] # ";" /\ \E j \in (i + 2)..Len(s) : s[j] = ";" }
  IN IF starts = {} THEN s
  ELSE LET i == CHOOSE x \in starts : \A y \in starts : x <= y
           k == CHOOSE j \in (i + 2)..Len(s) :
                       s[j] = ";" /\ \A m \in (i + 2)..(j - 1) : s[m] # ";"
       IN SubSeq(s, 1, i - 1) \o <<" ">> \o replaceEntities(SubSeq(s, k + 1, Len(s)))

cleanHtmlTags(text) == trim(replaceEntities(removeTags(text)))

\* [a-zA-Z0-9#]
IsEntityChar(c) ==
  \/ IndexIn(c, LowerLetters) > 0
  \/ IndexIn(c, UpperLetters) > 0
  \/ c \in {"0", "1", "2", "3", "4", "5", "6", "7", "8", "9", "#"}

\* summary.replace(/&[a-zA-Z0-9#]+;/g, ' ')
EndOfNamedEntity(s, i, j) ==
  s[j] = ";" /\ \A m \in (i + 1)..(j - 1) : IsEntityChar(s[m])

RECURSIVE replaceNamedEntities(_)
replaceNamedEntities(s) ==
  LET starts == { i \in 1..(Len(s) - 2) :
                    s[i] = "&" /\ \E j \in (i + 2)..Len(s) : EndOfNamedEntity(s, i, j) }
  IN IF starts = {} THEN s
  ELSE LET i == CHOOSE x \in starts : \A y \in starts : x <= y
           k == CHOOSE j \in (i + 2)..Len(s) : EndOfNamedEntity(s, i, j)
       IN SubSeq(s, 1, i - 1) \o <<" ">> \o replaceNamedEntities(SubSeq(s, k + 1, Len(s)))

\* summary.replace(/^\s*a\s+/g, ''): leading blanks, an "a" and the blanks after it.
removeLeadingA(s) ==
  LET body == trimStart(s)
  IN IF Len(body) >= 2 /\ body[1] = "a" /\ IsSpace(body[2])
     THEN trimStart(Tail(body))
     ELSE s

MIN_WORDS == 60
MIN_WORD_LEN == 3

\* The sentence appended to a summary with fewer than MIN_WORDS words.
PADDING ==
  <<".", " ", "T", "h", "i", "s", " ", "f", "i", "n", "a", "n", "c", "i",
     "a", "l", " ", "d", "e", "v", "e", "l", "o", "p", "m", "e", "n", "t",
     " ", "r", "e", "p", "r", "e", "s", "e", "n", "t", "s", " ", "a", " ",
     "s", "i", "g", "n", "i", "f", "i", "c", "a", "n", "t", " ", "m", "a",
     "r", "k", "e", "t", " ", "m", "o", "v", "e", "m", "e", "n", "t", " ",
     "t", "h", "a", "t", " ", "c", "o", "u", "l", "d", " ", "i", "m", "p",
     "a", "c", "t", " ", "i", "n", "v", "e", "s", "t", "o", "r", " ", "s",
     "e", "n", "t", "i", "m", "e", "n", "t", " ", "a", "n", "d", " ", "t",
     "r", "a", "d", "i", "n", "g", " ", "p", "a", "t", "t", "e", "r", "n",
     "s", " ", "i", "n", " ", "t", "h", "e", " ", "I", "n", "d", "i", "a",
     "n", " ", "s", "t", "o", "c", "k", " ", "m", "a", "r", "k", "e", "t",
     "s", ".", " ", "M", "a", "r", "k", "e", "t", " ", "a", "n", "a", "l",
     "y", "s", "t", "s", " ", "a", "r", "e", " ", "c", "l", "o", "s", "e",
     "l", "y", " ", "m", "o", "n", "i", "t", "o", "r", "i", "n", "g", " ",
     "t", "h", "e", " ", "s", "i", "t", "u", "a", "t", "i", "o", "n", " ",
     "a", "s", " ", "i", "t", " ", "u", "n", "f", "o", "l", "d", "s", ",",
     " ", "w", "i", "t", "h", " ", "p", "o", "t", "e", "n", "t", "i", "a",
     "l", " ", "i", "m", "p", "l", "i", "c", "a", "t", "i", "o", "n", "s",
     " ", "f", "o", "r", " ", "r", "e", "l", "a", "t", "e", "d", " ", "s",
     "e", "c", "t", "o", "r", "s", " ", "a", "n", "d", " ", "c", "o", "m",
     "p", "a", "n", "i", "e", "s", " ", "l", "i", "s", "t", "e", "d", " ",
     "o", "n", " ", "N", "S", "E", " ", "a", "n", "d", " ", "B", "S", "E",
     ".", " ", "T", "h", "e", " ", "n", "e", "w", "s", " ", "c", "o", "m",
     "e", "s", " ", "a", "t", " ", "a", " ", "t", "i", "m", "e", " ", "w",
     "h", "e", "n", " ", "I", "n", "d", "i", "a", "n", " ", "f", "i", "n",
     "a", "n", "c", "i", "a", "l", " ", "m", "a", "r", "k", "e", "t", "s",
     " ", "c", "o", "n", "t", "i", "n", "u", "e", " ", "t", "o", " ", "s",
     "h", "o", "w", " ", "r", "e", "s", "i", "l", "i", "e", "n", "c", "e",
     " ", "a", "n", "d", " ", "a", "d", "a", "p", "t", "a", "t", "i", "o",
     "n", " ", "t", "o", " ", "g", "l", "o", "b", "a", "l", " ", "e", "c",
     "o", "n", "o", "m", "i", "c", " ", "t", "r", "e", "n", "d", "s", "." >>

\* Lines 229-244. The texts of the model are written with "a", "b", the blank,
\* "<", ">", "&", ";" and the characters of PADDING; the replacements of lines
\* 232-241 look for "nbsp", "_blank", "/a", "font", "/font", "color=",
\* "target=", "href=" and runs of quotes or backslashes, none of which can be
\* written with those characters, so they leave every such text as it is.
cleanedSummary(summary) ==
  trim(collapseSpaces(removeLeadingA(replaceNamedEntities(removeTags(summary)))))

\* cleaned.split(/\s+/).filter(word => word.length > 2).length: the words are
\* counted where they start, a word being a maximal run of non-blank characters.
longWordCount(cleaned) ==
  Cardinality({ i \in 1..(Len(cleaned) - MIN_WORD_LEN + 1) :
                  /\ i = 1 \/ IsSpace(cleaned[i - 1])
                  /\ \A m \in i..(i + MIN_WORD_LEN - 1) : ~IsSpace(cleaned[m]) })

cleanSummaryForDisplay(summary) ==
  LET cleaned == cleanedSummary(summary)
  IN IF longWordCount(cleaned) < MIN_WORDS THEN cleaned \o PADDING ELSE cleaned

CleanTexts == SeqsUpTo({"a", "b", " ", "<", ">", "&", ";"}, MaxCleanLen)

ApplyCleanHtmlTags ==
  /\ pin.fn = "cleanHtmlTags"
  /\ ~pout.done
  /\ pout' = [done |-> TRUE, value |-> cleanHtmlTags(pin.text)]
  /\ UNCHANGED <<store, runs, quotaExceeded, lastQuotaCheck, now, nticks, failures,
                 callers, history, caught, pin, marketVars, hookVars, liveVars>>

ApplyCleanSummary ==
  /\ pin.fn = "cleanSummaryForDisplay"
  /\ ~pout.done
  /\ pout' = [done |-> TRUE, value |-> cleanSummaryForDisplay(pin.text)]
  /\ UNCHANGED <<store, runs, quotaExceeded, lastQuotaCheck, now, nticks, failures,
                 callers, history, caught, pin, marketVars, hookVars, liveVars>>

InitClean ==
  /\ PureIdle
  /\ pin \in { [fn |-> f, text |-> t] :
                 f \in {"cleanHtmlTags", "cleanSummaryForDisplay"}, t \in CleanTexts }

NextClean == ApplyCleanHtmlTags \/ ApplyCleanSummary

SpecClean == InitClean /\ [][NextClean]_vars

(***************************************************************************)
(* SpecMarket: the quote cache with overlapping callers, the interval and  *)
(* the sockets. The clock starts at a time of day, far from the epoch.     *)
(***************************************************************************)
InitMarket ==
  /\ store = <<>>
  /\ runs = [r \in Runs |-> IdleRun]
  /\ quotaExceeded = FALSE
  /\ lastQuotaCheck = 0
  /\ now = 2 * CACHE_DURATION
  /\ nticks = 0
  /\ failures = 0
  /\ callers = NoCallers
  /\ history = <<>>
  /\ caught = {}
  /\ pin = NoInput
  /\ pout = NoOutput
  /\ MarketIdle
  /\ HookIdle
  /\ LiveIdle

NextMarket ==
  \/ Initialize
  \/ TimerFires
  \/ RouteCall
  \/ \E i \in 1..Len(fetches) : \E outcome \in QuoteOutcomes : getMarketDataSettles(i, outcome)
  \/ \E c \in Clients : ClientConnects(c)
  \/ \E c \in Clients : ClientCloses(c)
  \/ MarketTick

SpecMarket == InitMarket /\ [][NextMarket]_vars

(***************************************************************************)
(* SpecHook: the hook with its sockets, its timeouts and a clock.          *)
(***************************************************************************)
InitHook == PureIdle /\ pin = NoInput

NextHook ==
  \/ \E throws \in BOOLEAN : Mount(throws)
  \/ Unmount
  \/ \E throws \in BOOLEAN : Reconnect(throws)
  \/ \E i \in 1..Len(browser.webSockets) : SocketOpens(i)
  \/ \E i \in 1..Len(browser.webSockets) : SocketError(i)
  \/ \E i \in 1..Len(browser.webSockets) : \E code \in CloseCodes : SocketCloses(i, code)
  \/ \E k \in 1..Len(browser.timeouts) : \E throws \in BOOLEAN : TimeoutFires(k, throws)
  \/ HookTick

SpecHook == InitHook /\ [][NextHook]_vars

(***************************************************************************)
(* SpecPage: GET /api/news over a store that does not change, one request  *)
(* after another, each for the page that follows the previous one.         *)
(***************************************************************************)
MaxPageStore == 4

MaxStamp == 3

MaxPageParam == 3

MaxPages == 2

\* A query parameter: absent, or the decimal number it holds.
Absent == <<>>

PageParams == {Absent} \cup { <<n>> : n \in 0..MaxPageParam }

\* parseInt(req.query.x as string) || fallback
parseIntOr(param, fallback) ==
  IF param = Absent THEN fallback
  ELSE IF param[1] = 0 THEN fallback ELSE param[1]

\* The handler of GET /api/news on the store `articles`; skip is the number
\* of articles the client has paged past and adds to its offset parameter.
getNews(articles, limit, offset, skip) ==
  getNewsArticlesOf(articles, parseIntOr(limit, DEFAULT_LIMIT),
                    parseIntOr(offset, 0) + skip)

\* Stores: the i-th article created has id i; timestamps may repeat.
PageStores ==
  { [i \in 1..Len(stamps) |-> [id |-> i, timestamp |-> stamps[i]]] :
      stamps \in SeqsUpTo(1..MaxStamp, MaxPageStore) }

\* One request: the first page, then the page after the ones already read.
GetNews ==
  /\ pin.fn = "GET /api/news"
  /\ IF pout.done THEN Len(pout.pages) < MaxPages ELSE TRUE
  /\ LET pages == IF pout.done THEN pout.pages ELSE <<>>
         skip == Len(pages) * parseIntOr(pin.limit, DEFAULT_LIMIT)
     IN pout' = [done |-> TRUE,
                 pages |-> Append(pages, getNews(pin.articles, pin.limit, pin.offset, skip))]
  /\ UNCHANGED <<store, runs, quotaExceeded, lastQuotaCheck, now, nticks, failures,
                 callers, history, caught, pin, marketVars, hookVars, liveVars>>

InitPage ==
  /\ PureIdle
  /\ pin \in { [fn |-> "GET /api/news", articles |-> a, limit |-> l, offset |-> o] :
                 a \in PageStores, l \in PageParams, o \in PageParams }

NextPage == GetNews

SpecPage == InitPage /\ [][NextPage]_vars

(***************************************************************************)
(* SpecValidate: processNewsArticle from the answer of the chat completion *)
(* to the article that processAndStoreArticle builds from its result. The  *)
(* answer's content is any JSON text, or no JSON at all.                   *)
(***************************************************************************)
\* JSON values by type; a missing property reads as undefined.
Undefined == [type |-> "undefined"]

JsonNull == [type |-> "null"]

JsonString(s) == [type |-> "string", chars |-> s]

JsonNumber(n) == [type |-> "number", number |-> n]

JsonBoolean(b) == [type |-> "boolean", flag |-> b]

JsonArray(elements) == [type |-> "array", elements |-> elements]

JsonObject == [type |-> "object"]

\* The values a property of the answer takes in the model.
FieldValues ==
  {Undefined, JsonNull, JsonString(<<>>), JsonString(<<"H">>), JsonNumber(0),
   JsonNumber(7), JsonBoolean(TRUE), JsonArray(<<>>), JsonObject}

ListValues ==
  {Undefined, JsonString(<<"T", "C", "S">>), JsonObject,
   JsonArray(<<JsonString(<<"T", "C", "S">>)>>)}

FlagValues == {JsonNull, JsonArray(<<>>)}

\* What JSON.parse gives for the content: an object with some of the five
\* properties, another JSON value, or a SyntaxError for a text that is not JSON.
NotJson == [type |-> "SyntaxError"]

Contents ==
  { [type |-> "response", headline |-> h, summary |-> s, tickers |-> t, sectors |-> c,
     tags |-> g] :
      h \in FieldValues, s \in FieldValues, t \in ListValues, c \in FlagValues,
      g \in FlagValues }
    \cup {JsonNull, JsonNumber(7), JsonArray(<<>>), NotJson}

\* JavaScript's truthiness, the test of `x || fallback`.
truthy(v) ==
  CASE v.type = "string" -> v.chars # <<>>
    [] v.type = "number" -> v.number # 0
    [] v.type = "boolean" -> v.flag
    [] v.type \in {"array", "object"} -> TRUE
    [] OTHER -> FALSE

\* description.substring(0, 300), the summary when the answer has none.
SUMMARY_LIMIT == 300

ThrownTypeError == [ok |-> FALSE, value |-> "TypeError"]

\* Lines 68-77: JSON.parse and the returned object.
validateResult(parsed, title, description) ==
  IF parsed = NotJson THEN Thrown
  ELSE IF parsed = JsonNull THEN ThrownTypeError
  ELSE LET prop(name) == IF parsed.type = "response" THEN parsed[name] ELSE Undefined
           listOr(v) == IF v.type = "array" THEN v ELSE JsonArray(<<>>)
       IN Returned([headline |-> IF truthy(prop("headline")) THEN prop("headline")
                                 ELSE JsonString(title),
                    summary |-> IF truthy(prop("summary")) THEN prop("summary")
                                ELSE JsonString(slice(description, 0, SUMMARY_LIMIT)),
                    tickers |-> listOr(prop("tickers")),
                    sectors |-> listOr(prop("sectors")),
                    tags |-> listOr(prop("tags"))])

\* The chat completion has answered: lines 68-95 of processNewsArticle, then
\* the article of processAndStoreArticle, lines 282-292, whose fields are the
\* ones of the result.
ValidateResponse ==
  /\ pin.fn = "processNewsArticle"
  /\ ~pout.done
  /\ LET validated == validateResult(pin.content, pin.item.title, pin.item.description)
         fallback == FallbackOf[pin.item].value
         stringsOf(list) == JsonArray([i \in 1..Len(list) |-> JsonString(list[i])])
     IN pout' = [done |-> TRUE,
                 value |-> IF validated.ok THEN validated.value
                           ELSE [headline |-> JsonString(fallback.headline),
                                 summary |-> JsonString(fallback.summary),
                                 tickers |-> stringsOf(fallback.tickers),
                                 sectors |-> stringsOf(fallback.sectors),
                                 tags |-> stringsOf(fallback.tags)]]
  /\ UNCHANGED <<store, runs, quotaExceeded, lastQuotaCheck, now, nticks, failures,
                 callers, history, caught, pin, marketVars, hookVars, liveVars>>

InitValidate ==
  /\ PureIdle
  /\ pin \in { [fn |-> "processNewsArticle", content |-> c, item |-> item] :
                 c \in Contents, item \in {NewItem, OtherItem} }

NextValidate == ValidateResponse

SpecValidate == InitValidate /\ [][NextValidate]_vars

(***************************************************************************)
(* SpecLive: one ingestion run and its external calls. The steps of the    *)
(* process itself (timers, continuations, the clock) are taken whenever    *)
(* they stay enabled; the answers of the feeds and of the enrichment       *)
(* service are not: a server may never answer.                             *)
(***************************************************************************)
\* fetchLatestNews' merge of every combination of feed results.
RecentOf == [results \in FeedResults |-> recentArticlesOf(results)]

\* Promise.allSettled(feedPromises) resolves once every feed promise has
\* settled: lines 65-90.
AllSettled(r) ==
  /\ runs[r].pc = "fetching"
  /\ \A f \in Feeds : calls[f].fetch = "settled"
  /\ LET recentArticles == RecentOf[[f \in Feeds |-> calls[f].articles]]
         settled == [runs[r] EXCEPT !.answered = {f \in Feeds : calls[f].articles # <<>>}]
     IN runs' = [runs EXCEPT ![r] =
          IF Len(recentArticles) = 0
          THEN [settled EXCEPT !.pc = "done",
                               !.response = [sent |-> TRUE, success |-> TRUE, fetched |-> 0,
                                             processed |-> 0, failed |-> 0]]
          ELSE [settled EXCEPT !.pc = "check", !.candidates = recentArticles, !.idx = 1]]
  /\ UNCHANGED <<store, quotaExceeded, lastQuotaCheck, now, nticks, failures,
                 callers, history, caught, pin, pout, calls, marketVars, hookVars>>

InitLive ==
  /\ PureIdle
  /\ pin = NoInput

\* The steps of the event loop that wait for nothing outside the process.
TimersRun == LiveTick \/ \E f \in Feeds : AbortFires(f)

ContinuationsRun ==
  \E r \in Runs : AllSettled(r) \/ CheckAndCall(r) \/ BatchDelay(r)

NextLive ==
  \/ \E r \in Runs : LiveStart(r)
  \/ \E f \in Feeds : \E ok \in BOOLEAN : HeadersArrive(f, ok)
  \/ \E f \in Feeds : BodyArrives(f)
  \/ \E f \in Feeds : AbortFires(f)
  \/ LiveTick
  \/ \E r \in Runs : AllSettled(r)
  \/ \E r \in Runs : CheckAndCall(r)
  \/ \E r \in Runs : \E outcome \in PrimaryOutcomes : PrimaryReturns(r, outcome)
  \/ \E r \in Runs : BatchDelay(r)

SpecLive ==
  InitLive /\ [][NextLive]_vars /\ WF_vars(TimersRun) /\ WF_vars(ContinuationsRun)
(***************************************************************************)
(* Properties.                                                             *)
(***************************************************************************)
CountIn(log, P(_)) == Cardinality({k \in 1..Len(log) : P(log[k])})

IsSuccess(entry) == entry.result = "success"

IsFailure(entry) == entry.result = "failure"

IsSkipped(entry) == entry.result = "skipped"

ByPrimary(entry) == entry.origin = "primary"

AttemptedNotPrimary(entry) == entry.result # "skipped" /\ entry.origin # "primary"

\* C1: in every reachable state of the store no two stored articles have the same
\* sourceUrl, whatever the store already holds and however the runs interleave.
C1_SourceUrlUnique ==
  \A i, j \in 1..Len(store) : i # j => store[i].sourceUrl # store[j].sourceUrl

\* C2: the existence check and the insert of one item are one atomic step: while a
\* run is between its check of an item and its insert of it (waiting for the
\* enrichment call), no other run inserts an article.
C2_CheckThenInsertAtomic ==
  [][\A r \in Runs :
       (runs[r].pc = "awaitAI" /\ runs'[r].pc = "awaitAI") => store' = store]_vars

\* C3: deduplicateArticles returns the subsequence of its input that keeps exactly
\* the first occurrence of each normalized URL (scheme + host + path; a URL that
\* does not parse is its own key): at most one item per key, every key of the input
\* is kept, and the kept items are in input order.
C3_DedupKeepsFirstOccurrences ==
  (pin.fn = "deduplicateArticles" /\ pout.done) =>
    LET input == pin.articles
        output == pout.value
        key(url) == IF url.valid THEN Url(url.base, 0, 0, TRUE) ELSE url
        first == [i \in 1..Len(input) |->
                    \A j \in 1..(i - 1) : key(input[j].url) # key(input[i].url)]
    IN /\ \A i, j \in 1..Len(output) :
            i # j => key(output[i].url) # key(output[j].url)
       /\ \A i \in 1..Len(input) :
            \E k \in 1..Len(output) : key(output[k].url) = key(input[i].url)
       /\ output = SelectIdx(input, first, 1)

\* C3's case: an input with a repeated key and at least two kept items.
C3_Witness ==
  /\ pin.fn = "deduplicateArticles"
  /\ pout.done
  /\ Len(pout.value) >= 2
  /\ Len(pout.value) < Len(pin.articles)
  /\ \E i \in 1..Len(pin.articles) :
       pin.articles[i].url.query = 1 /\ pin.articles[i].url.valid

\* C4: the stats of every run satisfy processed + failed <= fetched, and a skipped
\* item (its sourceUrl was found in the store) is counted in neither: processed and
\* failed together count exactly the priority items that were not skipped.
C4_StatsBounded ==
  \A r \in Runs :
    LET run == runs[r]
    IN /\ run.processed + run.failed = Len(run.log) - CountIn(run.log, IsSkipped)
       /\ run.response.sent =>
            /\ run.response.processed = CountIn(run.log, IsSuccess)
            /\ run.response.failed = CountIn(run.log, IsFailure)
            /\ run.response.processed + run.response.failed <= run.response.fetched

\* C4's case: a run has answered, with background items left and a skipped item
\* in its priority batch.
C4_Witness ==
  \E r \in Runs :
    /\ runs[r].response.sent
    /\ runs[r].response.fetched > QUICK_BATCH
    /\ CountIn(runs[r].log, IsSkipped) > 0
    /\ runs[r].response.processed > 0

\* C5: in the returned stats, processed is the number of priority items whose
\* enrichment by the external service succeeded, failed the number of priority
\* items that were not duplicates and whose enrichment was attempted and failed,
\* and every item counted as failed has its basic article stored.
C5_StatsMeaning ==
  \A r \in Runs :
    runs[r].response.sent =>
      /\ runs[r].response.processed = CountIn(runs[r].log, ByPrimary)
      /\ runs[r].response.failed = CountIn(runs[r].log, AttemptedNotPrimary)
      /\ \A k \in 1..Len(runs[r].log) :
           IsFailure(runs[r].log[k]) =>
             \E i \in 1..Len(store) : store[i].sourceUrl = runs[r].log[k].url

\* C10: an article is stored with isProcessed = TRUE only if the external
\* enrichment succeeded for it; an article built by the fallback has FALSE.
C10_ProcessedOnlyIfPrimary ==
  \A i \in 1..Len(store) : store[i].isProcessed => store[i].origin = "primary"

QuotaKnown(h) == {e \in h.known : e.error = "quota"}

LatestQuota(h) ==
  CHOOSE t \in {e.at : e \in QuotaKnown(h)} : \A e \in QuotaKnown(h) : e.at <= t

\* C6, as claimed: once a quota failure at time t has put the enricher in cool-down,
\* every request arriving before t + 30 minutes is answered by the fallback and the
\* first request arriving at or after t + 30 minutes attempts the external call.
C6_WindowFromAnyEntry ==
  \A k \in 1..Len(history) :
    \A e \in QuotaKnown(history[k]) :
      /\ history[k].at < e.at + QUOTA_RESET_INTERVAL => history[k].path = "fallback"
      /\ ( /\ history[k].at >= e.at + QUOTA_RESET_INTERVAL
           /\ \A j \in 1..(k - 1) :
                ~(e \in history[j].known /\ history[j].at >= e.at + QUOTA_RESET_INTERVAL) )
         => history[k].path = "primary"

\* C6, amended: the window runs from the most recent quota failure t: a request
\* arriving before t + 30 minutes is answered by the fallback without an external
\* call, and a request arriving at or after t + 30 minutes attempts the external call.
C6_WindowFromLatestQuotaFailure ==
  \A k \in 1..Len(history) :
    QuotaKnown(history[k]) # {} =>
      LET t == LatestQuota(history[k])
      IN /\ history[k].at < t + QUOTA_RESET_INTERVAL => history[k].path = "fallback"
         /\ history[k].at >= t + QUOTA_RESET_INTERVAL => history[k].path = "primary"

\* C6's case: a request answered by the fallback inside the window and a later one
\* that arrives when the window is over.
C6_Witness ==
  \E j, k \in 1..Len(history) :
    /\ j < k
    /\ QuotaKnown(history[j]) # {}
    /\ history[j].path = "fallback"
    /\ history[k].at >= LatestQuota(history[k]) + QUOTA_RESET_INTERVAL
    /\ history[k].path = "primary"

NoDuplicates(xs) == \A i, j \in 1..Len(xs) : i # j => xs[i] # xs[j]

\* C8: for every title and description the fallback returns a non-empty headline,
\* a non-empty summary and a tickers array without duplicates of at most 6 entries.
C8_FallbackResultWellFormed ==
  (pin.fn = "getFallbackProcessing" /\ pout.done) =>
    /\ pout.value.ok
    /\ pout.value.value.headline # <<>>
    /\ pout.value.value.summary # <<>>
    /\ NoDuplicates(pout.value.value.tickers)
    /\ Len(pout.value.value.tickers) <= 6

\* C9: the fallback never fails: getFallbackProcessing returns a result for every
\* title and description and raises no error.
C9_FallbackNeverThrows ==
  (pin.fn = "getFallbackProcessing" /\ pout.done) => pout.value.ok

ItemsOf ==
  [feeds \in SUBSET Feeds |->
     UNION { {FeedDocument[f][k] : k \in 1..Len(FeedDocument[f])} : f \in feeds }]

UrlKey(url) == IF url.valid THEN Url(url.base, 0, 0, TRUE) ELSE url

\* The store was empty at startup: a run stores at most the items of the feeds.
StartedEmpty == Len(store) < PreloadCount

KeysOf == [feeds \in SUBSET Feeds |-> {UrlKey(item.url) : item \in ItemsOf[feeds]}]

RanAlone(r) == \A other \in Runs \ {r} : runs[other].pc = "idle"

JustAnswered(r) ==
  /\ runs[r].response.sent
  /\ \/ runs[r].pc = "done" /\ runs[r].phase = "priority"
     \/ runs[r].pc = "check" /\ runs[r].phase = "background"
                              /\ runs[r].idx = QUICK_BATCH + 1

\* C14: once a run's response is returned, every item of its priority batch (the
\* first 3 candidates) is in the store, and the response reports fetched = the
\* number of candidates although the items after the priority batch are still to
\* be processed; a GET /api/news right after the response returns the priority
\* items while the store fits in one page.
C14_PriorityStoredBeforeResponse ==
  \A r \in Runs :
    runs[r].response.sent =>
      /\ runs[r].response.fetched = Len(runs[r].candidates)
      /\ \A k \in 1..Len(runs[r].candidates) :
           k <= QUICK_BATCH =>
             \E i \in 1..Len(store) : store[i].sourceUrl = runs[r].candidates[k].url
      /\ (JustAnswered(r) /\ Len(store) <= DEFAULT_LIMIT) =>
           LET page == getNewsArticles(DEFAULT_LIMIT, 0)
           IN \A k \in 1..Len(runs[r].candidates) :
                k <= QUICK_BATCH =>
                  \E i \in 1..Len(page) : page[i].sourceUrl = runs[r].candidates[k].url

\* C14's case: the response has just been returned with fetched = 4 and the fourth
\* candidate is not stored yet.
C14_Witness ==
  \E r \in Runs :
    /\ JustAnswered(r)
    /\ runs[r].response.fetched = QUICK_BATCH + 1
    /\ Len(store) = QUICK_BATCH
    /\ ~ \E i \in 1..Len(store) : store[i].sourceUrl = runs[r].candidates[QUICK_BATCH + 1].url

\* C15: a feed that times out, answers with a status that is not OK or with a
\* malformed payload contributes no item and does not abort the run: the candidates
\* are the merged items of the feeds that answered, and the run reports success;
\* with no candidate the run reports fetched = processed = failed = 0 and has
\* stored nothing.
C15_FailedFeedContributesNothing ==
  \A r \in Runs :
    runs[r].pc \notin {"idle", "fetching"} =>
      LET items == ItemsOf[runs[r].answered]
      IN /\ {UrlKey(runs[r].candidates[k].url) : k \in 1..Len(runs[r].candidates)}
              = KeysOf[runs[r].answered]
         /\ \A k \in 1..Len(runs[r].candidates) : runs[r].candidates[k] \in items
         /\ runs[r].response.sent => runs[r].response.success
         /\ runs[r].answered = {} =>
              /\ runs[r].pc = "done"
              /\ runs[r].response = [sent |-> TRUE, success |-> TRUE, fetched |-> 0,
                                     processed |-> 0, failed |-> 0]
              /\ runs[r].log = <<>>
              /\ RanAlone(r) => store \in {Preloaded(0), Preloaded(PreloadCount)}

\* C15's case: one feed failed and the run went on with the items of the other, and
\* the other run found every feed failing.
C15_Witness ==
  \E r, q \in Runs :
    /\ runs[r].answered = {"feedB"}
    /\ runs[r].pc = "done"
    /\ runs[r].response.fetched = 1
    /\ runs[q].answered = {}
    /\ runs[q].pc = "done"


(***************************************************************************)
(* C20. searchNewsArticles(q) returns exactly the stored articles, newest  *)
(* first and at most 20 of them, of which one of the five fields contains, *)
(* ignoring case, at least one whitespace-delimited term of q; an article  *)
(* holding none of the terms is never returned, however q is spaced.       *)
(***************************************************************************)
\* The whitespace-delimited terms of q: its maximal runs of non-blank characters.
TermsOf(q) ==
  UNION { { SubSeq(q, i, j) :
              j \in { k \in i..Len(q) :
                        /\ \A m \in i..k : ~IsSpace(q[m])
                        /\ (i = 1 \/ IsSpace(q[i - 1]))
                        /\ (k = Len(q) \/ IsSpace(q[k + 1])) } } :
          i \in 1..Len(q) }

FieldsOf(article) ==
  {article.headline, article.summary}
    \cup { article.tags[i] : i \in 1..Len(article.tags) }
    \cup { article.tickers[i] : i \in 1..Len(article.tickers) }
    \cup { article.sectors[i] : i \in 1..Len(article.sectors) }

ContainsSomeTerm(article, q) ==
  \E t \in TermsOf(q) : \E field \in FieldsOf(article) :
     includes(toLowerCase(field), toLowerCase(t))

Smaller(a, b) == IF a < b THEN a ELSE b

C20_SearchReturnsExactlyMatches ==
  (pin.fn = "searchNewsArticles" /\ pout.done) =>
    LET found == pout.value
        matching == { i \in 1..Len(pin.articles) : ContainsSomeTerm(pin.articles[i], pin.query) }
        foundIds == { found[k].id : k \in 1..Len(found) }
    IN /\ \A k \in 1..Len(found) : found[k] = pin.articles[found[k].id]
       /\ foundIds \subseteq matching
       /\ Cardinality(foundIds) = Len(found)
       /\ Len(found) = Smaller(Cardinality(matching), SEARCH_LIMIT)
       /\ \A k \in 1..(Len(found) - 1) : found[k].timestamp >= found[k + 1].timestamp
       /\ \A i \in matching \ foundIds : \A k \in 1..Len(found) :
             pin.articles[i].timestamp <= found[k].timestamp

(***************************************************************************)
(* C16. Both sanitizers are idempotent: cleaning a text that cleanHtmlTags *)
(* or cleanSummaryForDisplay (padding included) has already cleaned gives  *)
(* the same text again.                                                    *)
(***************************************************************************)
C16_CleanersIdempotent ==
  /\ (pin.fn = "cleanHtmlTags" /\ pout.done) => cleanHtmlTags(pout.value) = pout.value
  /\ (pin.fn = "cleanSummaryForDisplay" /\ pout.done) =>
        cleanSummaryForDisplay(pout.value) = pout.value

(***************************************************************************)
(* C11. When the quote fetch fails, getMarketData returns the cached       *)
(* snapshot if there is one, and otherwise returns the static fallback and *)
(* stores it in the cache; each index of the static fallback has           *)
(* isPositive in agreement with the sign of its change string; and every   *)
(* call that settles hands a snapshot to its caller, never an error.       *)
(***************************************************************************)
\* A waiting getMarketData call settles in this step.
CallSettles == Len(fetches') < Len(fetches)

SignAgrees(entry) == entry.isPositive <=> (Head(entry.change) # "-")

C11_FailureServesCacheOrFallback ==
  [][CallSettles =>
       /\ marketLog'.lastReturn.result # NoData
       /\ marketLog'.lastReturn.cause = "fail" =>
            /\ cachedData # NoData =>
                 marketLog'.lastReturn.result = cachedData /\ cachedData' = cachedData
            /\ cachedData = NoData =>
                 /\ marketLog'.lastReturn.result = fallbackData(now)
                 /\ cachedData' = fallbackData(now)
                 /\ SignAgrees(cachedData'.nifty50) /\ SignAgrees(cachedData'.sensex)]_vars

\* A failed fetch has found the cache empty and the fallback is cached; the
\* failed fetch of a later interval has been answered with that snapshot.
C11_Witness ==
  /\ marketLog.lastReturn.cause = "fail"
  /\ marketLog.lastReturn.by = "interval"
  /\ cachedData # NoData
  /\ marketLog.lastReturn.result = cachedData
  /\ cachedData.nifty50.change = <<"+", "9", "1", ".", "2", "5">>
  /\ cachedData.lastUpdated < marketLog.lastExpiry

(***************************************************************************)
(* C12. While the cache is younger than the 10-second TTL, two consecutive *)
(* getMarketData calls start no fetch and return the same value, change,   *)
(* changePercent and isPositive for both indices, the second lastUpdated   *)
(* not earlier than the first.                                             *)
(***************************************************************************)
SameQuotes(a, b) == a.nifty50 = b.nifty50 /\ a.sensex = b.sensex

\* marketLog.lastCall is what the latest call returned from a fresh cache, and
\* NoData when the latest call found the cache empty or stale.
C12_ConsecutiveHitsAgree ==
  [][(marketLog.lastCall # NoData /\ marketLog'.lastCall # NoData) =>
       /\ Len(fetches') <= Len(fetches)
       /\ SameQuotes(marketLog.lastCall, marketLog'.lastCall)
       /\ marketLog'.lastCall.lastUpdated >= marketLog.lastCall.lastUpdated]_vars

(***************************************************************************)
(* C17. A socket that connects while the cache holds a snapshot is sent    *)
(* one market-update message with that snapshot in the connection handler  *)
(* itself, so it is the first message of the socket, ahead of every        *)
(* broadcast; a socket that connects while the cache is empty is sent      *)
(* nothing on connect.                                                     *)
(***************************************************************************)
IsPrefix(s, t) == Len(s) <= Len(t) /\ SubSeq(t, 1, Len(s)) = s

C17_SnapshotOnConnect ==
  [][\A c \in Clients :
       /\ IsPrefix(sockets[c].inbox, sockets'[c].inbox)
       /\ (sockets[c].readyState = "NONE" /\ sockets'[c].readyState = "OPEN") =>
            sockets'[c].inbox =
              IF cachedData # NoData
              THEN <<[type |-> "market-update", data |-> cachedData]>>
              ELSE <<>>]_vars

\* A socket has been greeted with a snapshot made before it connected and has
\* since received a broadcast; the other one connected to an empty cache.
C17_Witness ==
  /\ sockets["clientA"].readyState = "OPEN"
  /\ sockets["clientA"].inbox # <<>>
  /\ sockets["clientA"].inbox[1].data.lastUpdated = now
  /\ sockets["clientB"].readyState = "OPEN"
  /\ Len(sockets["clientB"].inbox) >= 2
  /\ sockets["clientB"].inbox[1].data.lastUpdated < sockets["clientB"].inbox[2].data.lastUpdated
  /\ sockets["clientB"].inbox[1].data.nifty50 # sockets["clientB"].inbox[2].data.nifty50

(***************************************************************************)
(* C18. Once initialize has run and its first fetchAndBroadcast has        *)
(* settled, the interval expires every 5 seconds and stays installed;      *)
(* every expiry starts a fetchAndBroadcast, whatever sockets there are and *)
(* whoever has asked for data; every fetchAndBroadcast whose quote call    *)
(* has settled, failed or not, has broadcast once; and a broadcast appends *)
(* one and the same market-update message to every open socket and nothing *)
(* to the others.                                                          *)
(***************************************************************************)
WaitingBroadcasters == { i \in 1..Len(fetches) : fetches[i].by \in Broadcasters }

C18_TimerAndCounts ==
  /\ marketLog.started = marketLog.broadcasts + Cardinality(WaitingBroadcasters)
  /\ marketLog.started = marketLog.expiries + (IF wss THEN 1 ELSE 0)
  /\ (wss /\ \A i \in WaitingBroadcasters : fetches[i].by # "startup") => broadcastTimer.installed
  /\ broadcastTimer.installed => broadcastTimer.due <= now + BROADCAST_INTERVAL

C18_BroadcastStep ==
  /\ broadcastTimer.installed => broadcastTimer'.installed
  /\ marketLog'.expiries # marketLog.expiries =>
       /\ now = broadcastTimer.due
       /\ broadcastTimer'.due = now + BROADCAST_INTERVAL
       /\ marketLog'.started = marketLog.started + 1
  /\ marketLog'.broadcasts # marketLog.broadcasts =>
       LET message == [type |-> "market-update",
                       data |-> withTimestamp(marketLog'.lastReturn.result, now)]
       IN \A c \in Clients :
            sockets'[c].inbox = IF sockets[c].readyState = "OPEN"
                                THEN Append(sockets[c].inbox, message)
                                ELSE sockets[c].inbox

RetryPending(k) ==
  \E t \in 1..Len(browser.timeouts) :
     browser.timeouts[t].close = k /\ browser.timeouts[t].pending

RetriedOnTime(k) == hookLog[k].retriedAt = hookLog[k].at + RECONNECT_DELAY

NeverRetriedOtherwise ==
  \A k \in 1..Len(hookLog) :
     hookLog[k].retriedAt # 0 => hookLog[k].code # NORMAL_CLOSURE /\ RetriedOnTime(k)

\* As the claim has it: every abnormal close handled while mounted.
C19_EveryAbnormalCloseRetried ==
  /\ NeverRetriedOtherwise
  /\ \A k \in 1..Len(hookLog) :
        (hookLog[k].code # NORMAL_CLOSURE /\ now >= hookLog[k].at + RECONNECT_DELAY) =>
           RetriedOnTime(k) \/ (RetryPending(k) /\ now = hookLog[k].at + RECONNECT_DELAY)

\* The same for the closes after which the hook has stayed mounted: the
\* cleanup of the effect clears the timeout, and the callback of a timeout
\* that is not cleared does nothing once mountedRef is false.
C19_AbnormalCloseRetriedWhileMounted ==
  /\ NeverRetriedOtherwise
  /\ \A k \in 1..Len(hookLog) :
        (/\ hookLog[k].code # NORMAL_CLOSURE
         /\ ~hookLog[k].unmountedSince
         /\ now >= hookLog[k].at + RECONNECT_DELAY) =>
           RetriedOnTime(k) \/ (RetryPending(k) /\ now = hookLog[k].at + RECONNECT_DELAY)

\* Two abnormal closes in a row, each retried 3 seconds later, the second on
\* the socket that the first retry has created; then a normal close, left alone.
C19_Witness ==
  /\ Len(hookLog) = 3
  /\ hookLog[1].code # NORMAL_CLOSURE /\ RetriedOnTime(1)
  /\ hookLog[2].code # NORMAL_CLOSURE /\ RetriedOnTime(2)
  /\ hookLog[2].socket = 2 /\ hookLog[3].socket = 3
  /\ hookLog[3].code = NORMAL_CLOSURE /\ hookLog[3].retriedAt = 0
  /\ now >= hookLog[3].at + RECONNECT_DELAY
  /\ hook.effect

(***************************************************************************)
(* C26. The cache slot is only replaced as a whole and only by a call that *)
(* has fetched: a getMarketData call that hits the cache returns the       *)
(* cached snapshot with lastUpdated set to the time of the call and leaves *)
(* cachedData and lastFetchTime as they were, and the newer lastUpdated    *)
(* that fetchAndBroadcast puts on the broadcast copy is never stored.      *)
(***************************************************************************)
\* A call is answered from the fresh cache in this step.
CallHits ==
  /\ fetches' = fetches
  /\ marketLog' # marketLog
  /\ marketLog'.lastReturn.cause = "hit"

C26_CacheReplacedWholesale ==
  [][/\ (cachedData' # cachedData \/ lastFetchTime' # lastFetchTime) => CallSettles
     /\ cachedData' # cachedData =>
          /\ cachedData' # NoData
          /\ cachedData' = marketLog'.lastReturn.result
     /\ CallHits =>
          /\ marketLog'.lastReturn.result = [cachedData EXCEPT !.lastUpdated = now]
          /\ cachedData' = cachedData /\ lastFetchTime' = lastFetchTime
     /\ \A c \in Clients :
          Len(sockets'[c].inbox) > Len(sockets[c].inbox) /\ sockets[c].readyState = "OPEN" =>
            /\ sockets'[c].inbox[Len(sockets'[c].inbox)].data =
                 [marketLog'.lastReturn.result EXCEPT !.lastUpdated = now]
            /\ cachedData'.lastUpdated = IF CallSettles
                                         THEN marketLog'.lastReturn.result.lastUpdated
                                         ELSE cachedData.lastUpdated]_vars

\* The interval's call has hit the cache: the snapshot returned and broadcast
\* carries a later lastUpdated than the cached one, which is still the fetched
\* snapshot.
C26_Witness ==
  /\ marketLog.lastReturn.cause = "hit"
  /\ marketLog.lastReturn.by = "interval"
  /\ cachedData # NoData
  /\ marketLog.lastReturn.result.lastUpdated > cachedData.lastUpdated
  /\ cachedData.lastUpdated = lastFetchTime
  /\ \E c \in Clients :
       /\ sockets[c].inbox # <<>>
       /\ sockets[c].inbox[Len(sockets[c].inbox)].data = marketLog.lastReturn.result

(***************************************************************************)
(* C27. When getMarketData calls are made one after another, each starting *)
(* after the previous one has returned, the lastUpdated of the snapshot a  *)
(* call returns is never earlier than the lastUpdated of the snapshot the  *)
(* previous call returned.                                                 *)
(***************************************************************************)
\* The call that returns in this step started after the latest return: no
\* other call is waiting, and the previous snapshot, stamped when it was
\* returned, is older than the start of this call.
ReturnsAfterPrevious ==
  /\ marketLog.lastReturn.result # NoData
  /\ \/ CallHits /\ fetches = <<>>
     \/ /\ CallSettles /\ Len(fetches) = 1
        /\ marketLog.lastReturn.cause \in {"hit", "quoted", "nometa"}
        /\ marketLog.lastReturn.result.lastUpdated < fetches[1].now

C27_LastUpdatedMonotone ==
  [][ReturnsAfterPrevious =>
       marketLog'.lastReturn.result.lastUpdated >=
         marketLog.lastReturn.result.lastUpdated]_vars

(***************************************************************************)
(* C28. With overlapping getMarketData calls the cache never goes          *)
(* backwards: lastFetchTime never decreases, and a fetch never replaces    *)
(* the snapshot stored by a fetch that started after it.                   *)
(***************************************************************************)
C28_CacheNeverGoesBack ==
  [][/\ lastFetchTime' >= lastFetchTime
     /\ \A i \in 1..Len(fetches) :
          (fetches' = SubSeq(fetches, 1, i - 1) \o SubSeq(fetches, i + 1, Len(fetches))
             /\ fetches[i].now < lastFetchTime) => cachedData' = cachedData]_vars

(***************************************************************************)
(* C30. Once the hook is unmounted it opens no connection: every socket it *)
(* has created is closing or closed, the timeout in reconnectTimeoutRef is *)
(* cancelled, and while it stays unmounted no close event and no timeout   *)
(* creates a socket, sets a timeout or changes the hook's state.           *)
(***************************************************************************)
Unmounted == ~hook.effect /\ hook.mounts > 0

C30_NothingAfterUnmount ==
  [][Unmounted' =>
       /\ \A i \in 1..Len(browser'.webSockets) :
            browser'.webSockets[i] \in {"CLOSING", "CLOSED"}
       /\ hook'.reconnectTimeoutRef # 0 =>
            ~browser'.timeouts[hook'.reconnectTimeoutRef].pending
       /\ Unmounted =>
            /\ Len(browser'.webSockets) = Len(browser.webSockets)
            /\ Len(browser'.timeouts) = Len(browser.timeouts)
            /\ hook' = hook]_vars

(***************************************************************************)
(* C22. An item whose url is the sourceUrl of any article in the store,    *)
(* whatever that article's place in the store, is skipped: its check is    *)
(* followed by no enrichment call and no insert, and in the priority       *)
(* batch it is logged as skipped and not counted as failed.                *)
(***************************************************************************)
C22_StoredUrlSkipped ==
  [][\A r \in Runs :
       (/\ runs[r].pc = "check"
        /\ runs'[r] # runs[r]
        /\ \E i \in 1..Len(store) :
             store[i].sourceUrl = runs[r].candidates[runs[r].idx].url) =>
         /\ store' = store
         /\ runs'[r].pc # "awaitAI"
         /\ runs[r].phase = "priority" =>
              /\ Len(runs'[r].log) = Len(runs[r].log) + 1
              /\ runs'[r].log[Len(runs'[r].log)].result = "skipped"
              /\ runs'[r].failed = runs[r].failed]_vars

(***************************************************************************)
(* C29. No two stored articles have the same normalized URL: an item whose *)
(* url differs from a stored sourceUrl in the query string or the fragment *)
(* only is not inserted.                                                   *)
(***************************************************************************)
C29_NormalizedUrlUnique ==
  \A i, j \in 1..Len(store) :
    i # j => normalizeUrl(store[i].sourceUrl) # normalizeUrl(store[j].sourceUrl)

(***************************************************************************)
(* C21. For limit >= 1 and offset >= 0 a request returns exactly the       *)
(* articles at positions offset .. offset + limit - 1 of the store ordered *)
(* newest first (articles of one timestamp in insertion order), and the    *)
(* pages of consecutive requests over the same store repeat no article and *)
(* skip none.                                                              *)
(***************************************************************************)
\* The 0-based position of the i-th article of the store in newest-first order.
PositionOf(articles, i) ==
  Cardinality({ j \in 1..Len(articles) :
                  \/ articles[j].timestamp > articles[i].timestamp
                  \/ articles[j].timestamp = articles[i].timestamp /\ j < i })

C21_PagesArePositions ==
  (pin.fn = "GET /api/news" /\ pout.done /\ pin.limit # Absent /\ pin.limit[1] >= 1) =>
    LET a == pin.articles
        limit == pin.limit[1]
        offset == IF pin.offset = Absent THEN 0 ELSE pin.offset[1]
        first(p) == offset + (p - 1) * limit
        sizeOf(p) == IF Len(a) - first(p) < 0 THEN 0
                     ELSE IF Len(a) - first(p) < limit THEN Len(a) - first(p) ELSE limit
    IN /\ \A p \in 1..Len(pout.pages) :
            /\ Len(pout.pages[p]) = sizeOf(p)
            /\ \A k \in 1..Len(pout.pages[p]) :
                 \E i \in 1..Len(a) :
                   a[i] = pout.pages[p][k] /\ PositionOf(a, i) = first(p) + k - 1
       /\ \A p, q \in 1..Len(pout.pages) :
            \A k \in 1..Len(pout.pages[p]) : \A m \in 1..Len(pout.pages[q]) :
              pout.pages[p][k] = pout.pages[q][m] => (p = q /\ k = m)
       /\ \A i \in 1..Len(a) :
            (PositionOf(a, i) >= offset /\ PositionOf(a, i) < first(Len(pout.pages) + 1)) =>
              \E p \in 1..Len(pout.pages) : \E k \in 1..Len(pout.pages[p]) :
                pout.pages[p][k] = a[i]

\* Two requests with limit 2 from offset 1 over four articles, two of them of
\* one timestamp: the second page is the shorter one.
C21_Witness ==
  /\ pin.fn = "GET /api/news"
  /\ pout.done
  /\ pin.limit = <<2>> /\ pin.offset = <<1>>
  /\ Len(pin.articles) = 4
  /\ pin.articles[1].timestamp = pin.articles[3].timestamp
  /\ pin.articles[2].timestamp > pin.articles[1].timestamp
  /\ Len(pout.pages) = 2
  /\ Len(pout.pages[1]) = 2 /\ Len(pout.pages[2]) = 1
  /\ pout.pages[1][1].id = 1

(***************************************************************************)
(* C23. Whatever JSON the chat completion answers with, the article built  *)
(* from a successful call has a string as headline and as summary and an   *)
(* array as tickers, sectors and tags.                                     *)
(***************************************************************************)
C23_StoredFieldsTyped ==
  (pin.fn = "processNewsArticle" /\ pout.done) =>
    /\ pout.value.headline.type = "string"
    /\ pout.value.summary.type = "string"
    /\ pout.value.tickers.type = "array"
    /\ pout.value.sectors.type = "array"
    /\ pout.value.tags.type = "array"

(***************************************************************************)
(* C25. The fallback summary is made from the cleaned description: a long  *)
(* description is cut at a word boundary and ends with an ellipsis, a      *)
(* moderately long one is kept whole and followed by a sentence, and only  *)
(* a too-short one gives way to a sentence built from the title. A         *)
(* description of more than SUMMARY_LIMIT characters is not too short.     *)
(***************************************************************************)
Ellipses == { <<".", ".", ".">>, <<"...">> }

C25_SummaryFromDescription ==
  (pin.fn = "getFallbackProcessing" /\ pout.done /\ pout.value.ok
     /\ Len(pin.description) > SUMMARY_LIMIT) =>
    LET d == cleanQuotesAndSpaces(removeUrlsFromText(pin.description))
        s == pout.value.value.summary
    IN \/ \E n \in 1..(Len(d) - 1) : \E e \in Ellipses :
            /\ s = SubSeq(d, 1, n) \o e
            /\ d[n + 1] = " " \/ d[n] = " "
       \/ Len(s) > Len(d) /\ SubSeq(s, 1, Len(d)) = d

(***************************************************************************)
(* C24. Every external call of a run is cut off by a timeout: once a run   *)
(* has started to fetch the feeds, its triggering request gets its         *)
(* response, also when a feed or the enrichment service never answers.     *)
(***************************************************************************)
C24_RequestGetsResponse ==
  \A r \in Runs : (runs[r].pc = "fetching") ~> runs[r].response.sent
=============================================================================
